---- MODULE Spec2Model ----
(***************************************************************************)
(* Model of the WatchManager interposition engine (watch-obj).             *)
(*                                                                         *)
(* JavaScript values are modelled as strings: object identities ("T1",     *)
(* "F1", ...), names ("n1"), primitive tags ("undefined", "null", "true",  *)
(* "false", "v1", ...).  A hook of a configuration is modelled by a tag    *)
(* naming its behaviour ("null" when the hook is not configured).          *)
(***************************************************************************)
EXTENDS Integers, Sequences, FiniteSets, TLC

\* ------------------------------------------------------------------ bounds
\* facades created in one behaviour of the registry specification
MaxProxies == 3
\* facade operations performed in one behaviour
MaxOps == 2
MaxObservers == 2

\* --------------------------------------------------------------- universes
\* T1 is a plain object, T2 a function (invocable and constructible)
Targets == {"T1", "T2"}
Callables == {"T2", "T3"}
\* every object of the heap
Objects == Targets \cup Callables
\* identities handed out by Proxy.revocable, in creation order
FacadeIds == <<"F1", "F2", "F3", "F4", "F5", "F6">>
Facades == {FacadeIds[i] : i \in 1..Len(FacadeIds)}
\* an object that never was a facade nor a target
OtherObjects == {"O9"}
\* names given to sessions; "nx" is never given to any session
Names == {"n1"}
UnknownNames == {"nx"}
\* values that are neither objects nor functions
Primitives == {"null", "undefined", "num0", "num7", "str", "true", "false"}
Props == {"a", "b"}
Values == {"v1", "v2"}
Protos == {"P0", "P1"}

\* typeof x
TypeOf(x) ==
  IF x \in Callables THEN "function"
  ELSE IF x \in Targets \cup Facades \cup OtherObjects \cup {"null"} THEN "object"
  ELSE IF x \in Names \cup UnknownNames \cup {"str", "", "X"} \cup Values THEN "string"
  ELSE IF x \in {"num0", "num7"} THEN "number"
  ELSE IF x \in {"true", "false"} THEN "boolean"
  ELSE "undefined"

\* ToBoolean(x)
Falsy(x) == x \in {"null", "undefined", "num0", "false", ""}
Truthy(x) == ~Falsy(x)
\* a JavaScript boolean
Bool(b) == IF b THEN "true" ELSE "false"

VARIABLES
  watchedObjects,      \* target -> watchInfo            (WeakMap)
  namedObjects,        \* name -> [target, proxy]        (Map)
  proxyMetadata,       \* proxy -> [isWatchedProxy, target] (WeakMap)
  globalInterceptors,  \* sequence of observer tags
  proxies,             \* facade -> [target, config]: the Proxy objects created so far
  revoked,             \* facades whose revoke() has been called
  heap,                \* target -> the target object itself
  opCount,             \* facade operations performed so far
  last                 \* the most recent call: operation, arguments, outcome, effects

vars == <<watchedObjects, namedObjects, proxyMetadata, globalInterceptors,
          proxies, revoked, heap, opCount, last>>

registry == <<watchedObjects, namedObjects, proxyMetadata>>

\* ------------------------------------------------------- finite-map helpers
MapSet(m, k, v) == [x \in DOMAIN m \cup {k} |-> IF x = k THEN v ELSE m[x]]
MapDelete(m, k) == [x \in DOMAIN m \ {k} |-> m[x]]
MapHas(m, k) == k \in DOMAIN m
EmptyMap == [x \in {} |-> "none"]

\* ---------------------------------------------------------- configuration
\* _normalizeConfig: the defaults every configuration starts from
DefaultConfig ==
  [debug |-> "false", log |-> "true", logLevel |-> "info",
   onBefore |-> "null", onAfter |-> "null", onError |-> "null",
   onGet |-> "null", onSet |-> "null", onDefine |-> "null",
   onDelete |-> "null", onHas |-> "null",
   onCall |-> "null", onConstruct |-> "null",
   interceptGet |-> "null", interceptSet |-> "null",
   interceptCall |-> "null", interceptConstruct |-> "null",
   modifyArgs |-> "null", modifyResult |-> "null",
   modifyGetResult |-> "null", modifySetResult |-> "null",
   modifyHasResult |-> "null", modifyOwnKeysResult |-> "null",
   modifyDescriptorResult |-> "null", modifyPrototypeResult |-> "null",
   modifyDeleteResult |-> "null", modifyDefineResult |-> "null",
   replaceFunction |-> "null", shouldIntercept |-> "null",
   enableTiming |-> "false", enableStackTrace |-> "false"]

\* _normalizeConfig(options): a boolean becomes {debug: options}; the
\* caller's fields override the defaults (...options).  A boolean options
\* argument b is written [boolean |-> b].
NormalizeConfig(options) ==
  LET opts == IF DOMAIN options = {"boolean"} THEN [debug |-> options.boolean]
                                              ELSE options
  IN  [k \in DOMAIN DefaultConfig \cup DOMAIN opts |->
         IF k \in DOMAIN opts THEN opts[k] ELSE DefaultConfig[k]]

\* the hooks that only observe ("rec": a callback that returns nothing)
AllHooks ==
  [onBefore |-> "rec", onAfter |-> "rec", onError |-> "rec",
   onGet |-> "rec", onSet |-> "rec", onDefine |-> "rec", onDelete |-> "rec",
   onHas |-> "rec", onCall |-> "rec", onConstruct |-> "rec"]

Merge(a, b) == [k \in DOMAIN a \cup DOMAIN b |-> IF k \in DOMAIN b THEN b[k] ELSE a[k]]

\* the option objects callers pass to watch
OptEmpty == [x \in {} |-> "null"]
\* every hook and modifier configured behind a gate that always answers false
OptGateOff ==
  Merge(AllHooks,
    [shouldIntercept |-> "never", logLevel |-> "debug", debug |-> "true",
     interceptGet |-> "X", interceptSet |-> "retFalse", interceptCall |-> "X",
     interceptConstruct |-> "X", modifyArgs |-> "swap", modifyResult |-> "X",
     modifyGetResult |-> "X", modifySetResult |-> "veto",
     modifyHasResult |-> "retTrue", modifyOwnKeysResult |-> "hideB",
     modifyDeleteResult |-> "veto", modifyDefineResult |-> "veto",
     replaceFunction |-> "fn"])
\* the gate of watchProperties(obj, ['a']): only property a is intercepted
OptGateA == Merge(AllHooks, [shouldIntercept |-> "onlyA", logLevel |-> "debug"])
\* the three veto modifiers, refusing every attempt
OptVeto ==
  Merge(AllHooks,
    [modifyDeleteResult |-> "veto", modifySetResult |-> "veto",
     modifyDefineResult |-> "veto"])
\* veto modifiers that refuse property a only and echo context.success otherwise
OptVetoA ==
  [modifyDeleteResult |-> "vetoA", modifySetResult |-> "vetoA",
   modifyDefineResult |-> "vetoA", interceptSet |-> "undef"]
\* an access override answering "X" for property a and undefined otherwise
OptOverride == Merge(AllHooks, [interceptGet |-> "XforA", modifyGetResult |-> "v2"])

Options == {OptEmpty, OptGateOff, OptGateA, OptVeto, OptVetoA, OptOverride}
\* the option objects used where only the identity of the configuration matters
RegistryOptions == {OptEmpty, OptVeto}

\* ------------------------------------------------- the target objects
\* An object: own properties (descriptor per key, k = "absent" when the key
\* is not an own property), the own keys in insertion order, the prototype,
\* the extensible flag, and `touched`, the visible side effect of running one
\* of its accessors' getters.  For an accessor property v is what the getter
\* returns ("boom": the getter throws) and w tells whether it has a setter.
Absent == [k |-> "absent", v |-> "undefined", w |-> FALSE, c |-> FALSE]
DataDesc(v, w, c) == [k |-> "data", v |-> v, w |-> w, c |-> c]
AccDesc(v, w, c) == [k |-> "acc", v |-> v, w |-> w, c |-> c]

\* the values that can be thrown: the error raised by code of the target
\* (a getter, a setter, the function body), the error raised by a hook of
\* the configuration, and the TypeError of the language itself
TargetError == "Error: target"
HookError == "Error: hook"
TypeError == "TypeError"

\* descriptors handed to defineProperty: a value, and writable/configurable
\* given as "T"/"F" or left out ("-")
DescIn(v, w, c) == [v |-> v, w |-> w, c |-> c]

\* the outcome of one fundamental operation performed directly on an object:
\* result, whether it threw, the object afterwards, accessor calls made
Out(res, threw, obj, fx) == [res |-> res, threw |-> threw, obj |-> obj, fx |-> fx]

RemoveKey(seq, p) == SelectSeq(seq, LAMBDA x : x # p)

\* the event of code of the target raising TargetError
Fault(threw, name, detail) == IF threw THEN << <<"fault", name, detail>> >> ELSE <<>>

\* an accessor's setter throws when the value assigned is "boom"
SetterThrows(v) == v = "boom"

\* Reflect.get(target, property, receiver)
OrdGet(o, p) ==
  LET d == o.props[p] IN
  IF d.k = "acc"
    THEN Out(IF d.v = "boom" THEN TargetError ELSE d.v, d.v = "boom",
             [o EXCEPT !.touched = TRUE],
             << <<"accessor", "getter", p>> >> \o Fault(d.v = "boom", "getter", p))
    ELSE Out(d.v, FALSE, o, <<>>)

\* Reflect.getOwnPropertyDescriptor(target, property)
OrdGetOwnProperty(o, p) == Out(o.props[p], FALSE, o, <<>>)

\* Reflect.defineProperty(target, property, descriptor):
\* ValidateAndApplyPropertyDescriptor for data descriptors
OrdDefine(o, p, din) ==
  LET cur == o.props[p]
      created == DataDesc(din.v, din.w = "T", din.c = "T")
      merged == DataDesc(din.v,
                         IF din.w = "-" THEN (cur.k = "data" /\ cur.w) ELSE din.w = "T",
                         IF din.c = "-" THEN cur.c ELSE din.c = "T")
      refused == /\ ~cur.c
                 /\ \/ din.c = "T"
                    \/ cur.k = "acc"
                    \/ /\ ~cur.w
                       /\ (din.w = "T" \/ din.v # cur.v)
  IN  IF cur.k = "absent"
        THEN IF o.ext
               THEN Out("true", FALSE,
                        [o EXCEPT !.props[p] = created, !.keys = Append(@, p)], <<>>)
               ELSE Out("false", FALSE, o, <<>>)
        ELSE IF refused
               THEN Out("false", FALSE, o, <<>>)
               ELSE Out("true", FALSE, [o EXCEPT !.props[p] = merged], <<>>)

\* Reflect.deleteProperty(target, property)
OrdDelete(o, p) ==
  LET cur == o.props[p] IN
  IF cur.k = "absent" THEN Out("true", FALSE, o, <<>>)
  ELSE IF cur.c
    THEN Out("true", FALSE,
             [o EXCEPT !.props[p] = Absent, !.keys = RemoveKey(@, p)], <<>>)
    ELSE Out("false", FALSE, o, <<>>)

\* Reflect.has(target, property); the prototypes carry none of Props
OrdHas(o, p) == Out(Bool(o.props[p].k # "absent"), FALSE, o, <<>>)

\* Reflect.ownKeys(target)
OrdOwnKeys(o) == Out(o.keys, FALSE, o, <<>>)

\* Reflect.getPrototypeOf(target)
OrdGetPrototypeOf(o) == Out(o.proto, FALSE, o, <<>>)

\* Reflect.setPrototypeOf(target, prototype)
OrdSetPrototypeOf(o, proto) ==
  IF proto = o.proto THEN Out("true", FALSE, o, <<>>)
  ELSE IF o.ext THEN Out("true", FALSE, [o EXCEPT !.proto = proto], <<>>)
  ELSE Out("false", FALSE, o, <<>>)

\* Reflect.isExtensible(target)
OrdIsExtensible(o) == Out(Bool(o.ext), FALSE, o, <<>>)

\* Reflect.preventExtensions(target)
OrdPreventExtensions(o) == Out("true", FALSE, [o EXCEPT !.ext = FALSE], <<>>)

\* target.p = v performed directly on the object (receiver = the object)
OrdSet(o, p, v) ==
  LET cur == o.props[p] IN
  IF cur.k = "acc"
    THEN IF cur.w THEN Out(IF SetterThrows(v) THEN TargetError ELSE "true",
                           SetterThrows(v), o,
                           << <<"accessor", "setter", p>> >>
                           \o Fault(SetterThrows(v), "setter", p))
                  ELSE Out("false", FALSE, o, <<>>)
  ELSE IF cur.k = "data"
    THEN IF cur.w THEN OrdDefine(o, p, DescIn(v, "-", "-"))
                  ELSE Out("false", FALSE, o, <<>>)
  ELSE OrdDefine(o, p, DescIn(v, "T", "T"))

\* the body of the function target: it returns its first argument
\* ("undefined" without arguments) and throws when that argument is "boom"
FnReturn(args) == IF Len(args) = 0 THEN "undefined" ELSE args[1]
FnThrows(args) == Len(args) > 0 /\ args[1] = "boom"

\* Reflect.apply(target, thisArg, argumentsList)
OrdApply(o, args) ==
  Out(IF FnThrows(args) THEN TargetError ELSE FnReturn(args), FnThrows(args), o,
      << <<"function", "call", FnReturn(args)>> >>
      \o Fault(FnThrows(args), "function", FnReturn(args)))

\* Reflect.construct(target, argumentsList, newTarget): a new instance,
\* identified by the argument it was built from
OrdConstruct(o, args) ==
  Out(IF FnThrows(args) THEN TargetError ELSE "instance", FnThrows(args), o,
      << <<"function", "construct", FnReturn(args)>> >>
      \o Fault(FnThrows(args), "function", FnReturn(args)))

\* ------------------------------------------------------ pipeline helpers
\* Effects of one invocation are recorded as events <<class, name, detail>>:
\*   "gate"     the shouldIntercept predicate was evaluated
\*   "hook"     a before/after/kind-specific/error hook was called
\*   "override" an intercept* or replaceFunction hook was called
\*   "modifier" a modify* hook was called
\*   "observer" a global interceptor was called (name = phase)
\*   "debugger" the debugger statement was reached
\*   "log"      a console line was written by _log (name = level)
\*   "console"  console.error from a contained hook/observer fault
\*   "target"   a Reflect operation was performed on the target
\*   "accessor", "function"  code of the target itself ran
\*   "fault"    that code raised an error
Ret(res, threw, obj, ev) == [res |-> res, threw |-> threw, obj |-> obj, ev |-> ev]

\* typeof tag === 'function' for a configuration value
NonFunctionTags == Primitives \cup {"", "debug", "info", "warn", "error"}
IsFunction(tag) == tag \notin NonFunctionTags

\* the environment of an interceptor: the configuration it closes over, the
\* target identity, the manager's registry and observer list, and whether the
\* facade the operation came through has been revoked meanwhile
Env(cfg, t, wo, gi) == [cfg |-> cfg, t |-> t, wo |-> wo, gi |-> gi, rv |-> FALSE]

\* an onBefore hook "unwatch" calls unwatch(proxy) on the facade its context
\* came through
HookUnwatches(cfg) == cfg.onBefore = "unwatch"

\* the environment once the onBefore hook has run: after a hook that
\* unwatches, the session is gone from the registry and the facade is revoked
AfterHooks(E) ==
  IF HookUnwatches(E.cfg) THEN [E EXCEPT !.wo = MapDelete(E.wo, E.t), !.rv = TRUE]
                          ELSE E

\* _executeHook(hook, context): a fault of the hook is caught and logged
ExecuteHook_Silent(hook, name, prop) ==
  IF IsFunction(hook) THEN << <<"hook", name, prop>> >> ELSE <<>>

ExecuteHook(hook, name, prop) ==
  IF IsFunction(hook)
    THEN << <<"hook", name, prop>> >> \o
         (IF hook = "throw"
            THEN << <<"console", "error", "Hook execution error">> >> ELSE <<>>)
    ELSE <<>>

\* splice(indexOf(interceptor), 1): the list without the first occurrence
Splice(gi, interceptor) ==
  IF \E i \in 1..Len(gi) : gi[i] = interceptor
    THEN LET index == CHOOSE i \in 1..Len(gi) :
                        gi[i] = interceptor /\ \A j \in 1..(i - 1) : gi[j] # interceptor
         IN  SubSeq(gi, 1, index - 1) \o SubSeq(gi, index + 1, Len(gi))
    ELSE gi

\* the observer list once observer o has been called: "obsLeave" is an
\* observer that calls removeGlobalInterceptor on itself
ObserverEffect(gi, o) == IF o = "obsLeave" THEN Splice(gi, o) ELSE gi

\* the observer list after `for (const interceptor of this.globalInterceptors)`
\* has run from position i: the iterator reads the live list at each step
RECURSIVE ListAfterFrom(_, _)
ListAfterFrom(gi, i) ==
  IF i > Len(gi) THEN gi ELSE ListAfterFrom(ObserverEffect(gi, gi[i]), i + 1)

\* the observer list after one broadcast
AfterBroadcast(gi) == ListAfterFrom(gi, 1)

\* _executeGlobalInterceptors(phase, context): every observer in order,
\* each fault caught and logged
RECURSIVE ExecuteGlobalInterceptorsFrom(_, _, _)
ExecuteGlobalInterceptorsFrom_Aborts(gi, phase, i) ==
  IF i > Len(gi) THEN <<>>
  ELSE IF gi[i] = "obsThrow"
    THEN << <<"observer", phase, gi[i]>>,
            <<"console", "error", "Global interceptor error">> >>
  ELSE << <<"observer", phase, gi[i]>> >> \o
       ExecuteGlobalInterceptorsFrom(gi, phase, i + 1)

ExecuteGlobalInterceptorsFrom(gi, phase, i) ==
  IF i > Len(gi) THEN <<>>
  ELSE << <<"observer", phase, gi[i]>> >> \o
       (IF gi[i] = "obsThrow"
          THEN << <<"console", "error", "Global interceptor error">> >> ELSE <<>>) \o
       ExecuteGlobalInterceptorsFrom(ObserverEffect(gi, gi[i]), phase, i + 1)

ExecuteGlobalInterceptors_Never(gi, phase) == <<>>

ExecuteGlobalInterceptors_BeforeOnly(gi, phase) ==
  IF phase = "before" THEN ExecuteGlobalInterceptorsFrom(gi, phase, 1) ELSE <<>>

ExecuteGlobalInterceptors(gi, phase) == ExecuteGlobalInterceptorsFrom(gi, phase, 1)

\* the predicates a caller may configure as debug / log toggles or gate
PredicateHolds(tag, prop) ==
  CASE tag \in {"fnTrue", "always"} -> TRUE
    [] tag \in {"fnFalse", "never"} -> FALSE
    [] tag = "onlyA" -> prop = "a"
    [] OTHER -> FALSE

\* _conditionalDebugger(debugConfig, context)
ConditionalDebugger(debugConfig, prop) ==
  IF IsFunction(debugConfig)
    THEN IF PredicateHolds(debugConfig, prop)
           THEN << <<"debugger", "", prop>> >> ELSE <<>>
    ELSE IF Truthy(debugConfig) THEN << <<"debugger", "", prop>> >> ELSE <<>>

\* logLevels[x] || 1
LogLevelsOr1(level) ==
  CASE level = "debug" -> 1     \* logLevels.debug is 0, which is falsy
    [] level = "info" -> 1
    [] level = "warn" -> 2
    [] level = "error" -> 3
    [] OTHER -> 1

\* _log(level, message, data); hasTarget tells whether data.target is set
Log(E, level, message, hasTarget) ==
  IF ~hasTarget THEN <<>>                         \* config = {}: no log field
  ELSE IF ~MapHas(E.wo, E.t) THEN <<>>            \* config undefined
  ELSE LET config == E.wo[E.t].config IN
       IF Falsy(config.log) THEN <<>>
       ELSE IF LogLevelsOr1(level) >= LogLevelsOr1(config.logLevel)
              THEN << <<"log", level, message>> >>
              ELSE <<>>

\* config.shouldIntercept && !config.shouldIntercept(context)
GateConfigured(cfg) == Truthy(cfg.shouldIntercept)
GateEv(cfg, prop) ==
  IF GateConfigured(cfg) THEN << <<"gate", "shouldIntercept", prop>> >> ELSE <<>>
GateClosed(cfg, prop) ==
  GateConfigured(cfg) /\ ~PredicateHolds(cfg.shouldIntercept, prop)

Catch_Swallows(E, r, message, prop) ==
  IF r.threw
    THEN [r EXCEPT !.threw = FALSE, !.res = "undefined",
                   !.ev = @ \o ExecuteHook(E.cfg.onError, "onError", prop)]
    ELSE r

\* the catch block of the four contained kinds: the error hook, the error
\* log line, and `throw error`
Catch(E, r, message, prop) ==
  IF r.threw
    THEN [r EXCEPT !.ev = @ \o ExecuteHook(E.cfg.onError, "onError", prop)
                            \o Log(E, "error", message, FALSE)]
    ELSE r

TargetEv(op, detail) == << <<"target", op, detail>> >>

\* what a veto modifier (modifySetResult / modifyDefineResult /
\* modifyDeleteResult) returns for {...context, success: true}
VetoModifierResult(tag, prop) ==
  CASE tag = "veto" -> "false"
    [] tag = "vetoA" -> IF prop = "a" THEN "false" ELSE "true"
    [] tag = "echo" -> "true"
    [] OTHER -> "undefined"

\* what a value modifier returns for the value it is shown
ModifierValue(tag, input) ==
  CASE tag = "X" -> "X"
    [] tag = "v2" -> "v2"
    [] tag = "P1" -> "P1"
    [] tag = "retTrue" -> "true"
    [] tag = "retFalse" -> "false"
    [] tag = "echo" -> input
    [] OTHER -> "undefined"

\* modifier(...) || value
OrElse(mv, value) == IF Truthy(mv) THEN mv ELSE value

\* what modifyOwnKeysResult returns: a key list (always truthy) or undefined
KeysModifier(tag, keys) ==
  IF tag = "hideB" THEN SelectSeq(keys, LAMBDA x : x # "b") ELSE keys

\* what modifyDescriptorResult returns: a descriptor or undefined
DescriptorModifier(tag, d) ==
  IF tag = "readonly" /\ d.k # "absent" THEN [d EXCEPT !.w = FALSE] ELSE d

ModifierEv(cfg, name, prop) ==
  IF Truthy(cfg[name]) THEN << <<"modifier", name, prop>> >> ELSE <<>>

\* the veto checks: `let should<Op> = true; if (config.modify<Op>Result)
\* should<Op> = modifiedResult !== false`
ShouldSet_Always(consulted, modifiedResult) == TRUE

ShouldSet(consulted, modifiedResult) == ~consulted \/ modifiedResult # "false"

ShouldDefine_OnlyUnconsulted(consulted, modifiedResult) == ~consulted

ShouldDefine(consulted, modifiedResult) == ~consulted \/ modifiedResult # "false"

ShouldDelete_DefaultFalse(consulted, modifiedResult) ==
  consulted /\ modifiedResult # "false"

ShouldDelete(consulted, modifiedResult) == ~consulted \/ modifiedResult # "false"

\* ------------------------------------------ the nine uncontained interceptors
\* Each interceptor maps the target object before the call to the returned
\* value, whether it threw, the target object afterwards and the events.

\* _createDefinePropertyInterceptor
DefinePropertyInterceptor(E, o, p, din) ==
  LET cfg == E.cfg
      ev1 == ExecuteHook(cfg.onBefore, "onBefore", p)
             \o ExecuteHook(cfg.onDefine, "onDefine", p)
             \o ConditionalDebugger(cfg.debug, p)
             \o ModifierEv(cfg, "modifyDefineResult", p)
      consulted == Truthy(cfg.modifyDefineResult)
      shouldDefine == ShouldDefine(consulted,
                                   VetoModifierResult(cfg.modifyDefineResult, p))
      d == IF shouldDefine THEN OrdDefine(o, p, din) ELSE Out("false", FALSE, o, <<>>)
      ev2 == ev1 \o (IF shouldDefine THEN TargetEv("defineProperty", p) \o d.fx ELSE <<>>)
  IN  IF consulted /\ cfg.modifyDefineResult = "throw"
        THEN Ret(HookError, TRUE, o, ev1)
        ELSE Ret(d.res, FALSE, d.obj,
                 ev2 \o ExecuteHook(cfg.onAfter, "onAfter", p)
                     \o Log(AfterHooks(E), "debug", "Property defined", TRUE))

\* _createDeletePropertyInterceptor
DeletePropertyInterceptor(E, o, p) ==
  LET cfg == E.cfg
      old == OrdGet(o, p)          \* deletedValue = Reflect.get(target, property)
      ev0 == TargetEv("get", p) \o old.fx
      ev1 == ev0 \o ExecuteHook(cfg.onBefore, "onBefore", p)
                 \o ExecuteHook(cfg.onDelete, "onDelete", p)
                 \o ConditionalDebugger(cfg.debug, p)
                 \o ModifierEv(cfg, "modifyDeleteResult", p)
      consulted == Truthy(cfg.modifyDeleteResult)
      shouldDelete == ShouldDelete(consulted,
                                   VetoModifierResult(cfg.modifyDeleteResult, p))
      d == IF shouldDelete THEN OrdDelete(old.obj, p)
                           ELSE Out("false", FALSE, old.obj, <<>>)
      ev2 == ev1 \o (IF shouldDelete THEN TargetEv("deleteProperty", p) \o d.fx ELSE <<>>)
  IN  IF old.threw THEN Ret(old.res, TRUE, old.obj, ev0)
      ELSE IF consulted /\ cfg.modifyDeleteResult = "throw"
        THEN Ret(HookError, TRUE, old.obj, ev1)
        ELSE Ret(d.res, FALSE, d.obj,
                 ev2 \o ExecuteHook(cfg.onAfter, "onAfter", p)
                     \o Log(AfterHooks(E), "debug", "Property deleted", TRUE))

\* _createHasInterceptor
HasInterceptor(E, o, p) ==
  LET cfg == E.cfg
      ev1 == ExecuteHook(cfg.onBefore, "onBefore", p)
             \o ExecuteHook(cfg.onHas, "onHas", p)
      d == OrdHas(o, p)
      ev2 == ev1 \o TargetEv("has", p) \o ModifierEv(cfg, "modifyHasResult", p)
      result == IF Truthy(cfg.modifyHasResult)
                  THEN OrElse(ModifierValue(cfg.modifyHasResult, d.res), d.res)
                  ELSE d.res
  IN  IF Truthy(cfg.modifyHasResult) /\ cfg.modifyHasResult = "throw"
        THEN Ret(HookError, TRUE, d.obj, ev2)
        ELSE Ret(result, FALSE, d.obj,
                 ev2 \o ExecuteHook(cfg.onAfter, "onAfter", p)
                     \o Log(AfterHooks(E), "debug", "Property existence checked", TRUE))

\* _createOwnKeysInterceptor
OwnKeysInterceptor(E, o) ==
  LET cfg == E.cfg
      ev1 == ExecuteHook(cfg.onBefore, "onBefore", "undefined")
      d == OrdOwnKeys(o)
      ev2 == ev1 \o TargetEv("ownKeys", "") \o ModifierEv(cfg, "modifyOwnKeysResult", "undefined")
      result == IF Truthy(cfg.modifyOwnKeysResult)
                  THEN KeysModifier(cfg.modifyOwnKeysResult, d.res) ELSE d.res
  IN  IF Truthy(cfg.modifyOwnKeysResult) /\ cfg.modifyOwnKeysResult = "throw"
        THEN Ret(HookError, TRUE, d.obj, ev2)
        ELSE Ret(result, FALSE, d.obj,
                 ev2 \o ExecuteHook(cfg.onAfter, "onAfter", "undefined")
                     \o Log(AfterHooks(E), "debug", "Own keys accessed", TRUE))

\* _createGetOwnPropertyDescriptorInterceptor
GetOwnPropertyDescriptorInterceptor(E, o, p) ==
  LET cfg == E.cfg
      ev1 == ExecuteHook(cfg.onBefore, "onBefore", p)
      d == OrdGetOwnProperty(o, p)
      ev2 == ev1 \o TargetEv("getOwnPropertyDescriptor", p)
                 \o ModifierEv(cfg, "modifyDescriptorResult", p)
      result == IF Truthy(cfg.modifyDescriptorResult)
                  THEN DescriptorModifier(cfg.modifyDescriptorResult, d.res) ELSE d.res
  IN  IF Truthy(cfg.modifyDescriptorResult) /\ cfg.modifyDescriptorResult = "throw"
        THEN Ret(HookError, TRUE, d.obj, ev2)
        ELSE Ret(result, FALSE, d.obj,
                 ev2 \o ExecuteHook(cfg.onAfter, "onAfter", p)
                     \o Log(AfterHooks(E), "debug", "Property descriptor accessed", TRUE))

\* _createGetPrototypeOfInterceptor
GetPrototypeOfInterceptor(E, o) ==
  LET cfg == E.cfg
      ev1 == ExecuteHook(cfg.onBefore, "onBefore", "undefined")
      d == OrdGetPrototypeOf(o)
      ev2 == ev1 \o TargetEv("getPrototypeOf", "")
                 \o ModifierEv(cfg, "modifyPrototypeResult", "undefined")
      result == IF Truthy(cfg.modifyPrototypeResult)
                  THEN OrElse(ModifierValue(cfg.modifyPrototypeResult, d.res), d.res)
                  ELSE d.res
  IN  IF Truthy(cfg.modifyPrototypeResult) /\ cfg.modifyPrototypeResult = "throw"
        THEN Ret(HookError, TRUE, d.obj, ev2)
        ELSE Ret(result, FALSE, d.obj,
                 ev2 \o ExecuteHook(cfg.onAfter, "onAfter", "undefined")
                     \o Log(AfterHooks(E), "debug", "Prototype accessed", TRUE))

\* _createSetPrototypeOfInterceptor
SetPrototypeOfInterceptor(E, o, proto) ==
  LET d == OrdSetPrototypeOf(o, proto) IN
  Ret(d.res, FALSE, d.obj,
      TargetEv("setPrototypeOf", proto) \o Log(E, "debug", "Prototype set", TRUE))

\* _createIsExtensibleInterceptor
IsExtensibleInterceptor(E, o) ==
  LET d == OrdIsExtensible(o) IN
  Ret(d.res, FALSE, d.obj,
      TargetEv("isExtensible", "") \o Log(E, "debug", "Extensibility checked", TRUE))

\* _createPreventExtensionsInterceptor
PreventExtensionsInterceptor(E, o) ==
  LET d == OrdPreventExtensions(o) IN
  Ret(d.res, FALSE, d.obj,
      TargetEv("preventExtensions", "") \o Log(E, "debug", "Extensions prevented", TRUE))

\* ------------------------------------------- the four contained interceptors
\* what an intercept* / replaceFunction hook returns
OverrideValue(tag, prop) ==
  CASE tag = "X" -> "X"
    [] tag = "XforA" -> IF prop = "a" THEN "X" ELSE "undefined"
    [] tag = "retTrue" -> "true"
    [] tag = "retFalse" -> "false"
    [] tag = "fn" -> "fn"
    [] OTHER -> "undefined"

OverrideEv(cfg, name, prop) ==
  IF Truthy(cfg[name]) THEN << <<"override", name, prop>> >> ELSE <<>>

OverrideTaken_Never(result) == FALSE

\* get: `if (result !== undefined)` after interceptGet
OverrideTaken(result) == result # "undefined"

\* the try block of _createGetInterceptor, entered with the events so far
GetBody(E, o, p, ev0) ==
  LET cfg == E.cfg
      ev1 == ev0 \o ExecuteHook(cfg.onBefore, "onBefore", p)
                 \o ExecuteHook(cfg.onGet, "onGet", p)
                 \o ExecuteGlobalInterceptors(E.gi, "before")
                 \o ConditionalDebugger(cfg.debug, p)
                 \o OverrideEv(cfg, "interceptGet", p)
      hasI == Truthy(cfg.interceptGet)
      iv == OverrideValue(cfg.interceptGet, p)
      d == OrdGet(o, p)
      ev2 == ev1 \o TargetEv("get", p) \o d.fx
      hasM == Truthy(cfg.modifyGetResult)
      ev3 == ev2 \o ModifierEv(cfg, "modifyGetResult", p)
      value == IF hasM THEN OrElse(ModifierValue(cfg.modifyGetResult, d.res), d.res)
                       ELSE d.res
  IN  IF hasI /\ cfg.interceptGet = "throw" THEN Ret(HookError, TRUE, o, ev1)
      ELSE IF hasI /\ OverrideTaken(iv)
        THEN Ret(iv, FALSE, o, ev1 \o ExecuteHook(cfg.onAfter, "onAfter", p))
      ELSE IF d.threw THEN Ret(d.res, TRUE, d.obj, ev2)
      ELSE IF hasM /\ cfg.modifyGetResult = "throw" THEN Ret(HookError, TRUE, d.obj, ev3)
      ELSE Ret(value, FALSE, d.obj,
               ev3 \o ExecuteHook(cfg.onAfter, "onAfter", p)
                   \o ExecuteGlobalInterceptors(AfterBroadcast(E.gi), "after")
                   \o Log(AfterHooks(E), "debug", "Property accessed", TRUE))

\* _createGetInterceptor
GetInterceptor(E, o, p) ==
  LET d == OrdGet(o, p) IN
  IF GateClosed(E.cfg, p)
    THEN Ret(d.res, d.threw, d.obj, GateEv(E.cfg, p) \o TargetEv("get", p) \o d.fx)
    ELSE Catch(E, GetBody(E, o, p, GateEv(E.cfg, p)), "Property access error", p)

\* Reflect.set(target, property, value, receiver) with the facade as receiver:
\* for a data property (or a new one) the assignment is completed through the
\* receiver's getOwnPropertyDescriptor and defineProperty interceptors
ReflectSet(E, o, p, v) ==
  LET cur == o.props[p]
      g == GetOwnPropertyDescriptorInterceptor(E, o, p)
      existing == g.res
      din == IF existing.k = "absent" THEN DescIn(v, "T", "T") ELSE DescIn(v, "-", "-")
      \* the getOwnPropertyDescriptor interceptor has run onBefore
      df == IF AfterHooks(E).rv THEN Ret(TypeError, TRUE, g.obj, <<>>)
            ELSE DefinePropertyInterceptor(E, g.obj, p, din)
      ev0 == TargetEv("set", p)
  IN  IF cur.k = "acc"
        THEN IF cur.w THEN Ret(IF SetterThrows(v) THEN TargetError ELSE "true",
                               SetterThrows(v), o,
                               ev0 \o << <<"accessor", "setter", p>> >>
                                   \o Fault(SetterThrows(v), "setter", p))
                      ELSE Ret("false", FALSE, o, ev0)
      ELSE IF cur.k = "data" /\ ~cur.w THEN Ret("false", FALSE, o, ev0)
      ELSE IF E.rv THEN Ret(TypeError, TRUE, o, ev0)    \* receiver is a revoked Proxy
      ELSE IF g.threw THEN Ret(g.res, TRUE, g.obj, ev0 \o g.ev)
      ELSE IF existing.k = "acc" \/ (existing.k = "data" /\ ~existing.w)
        THEN Ret("false", FALSE, g.obj, ev0 \o g.ev)
      ELSE Ret(IF df.threw THEN df.res ELSE Bool(Truthy(df.res)), df.threw, df.obj,
               ev0 \o g.ev \o df.ev)

IsBoolean_Defined(result) == result # "undefined"

\* set: `if (typeof result === 'boolean')` after interceptSet
IsBoolean(result) == result \in {"true", "false"}

\* the try block of _createSetInterceptor
SetBody(E, o, p, v, ev0) ==
  LET cfg == E.cfg
      ev1 == ev0 \o ExecuteHook(cfg.onBefore, "onBefore", p)
                 \o ExecuteHook(cfg.onSet, "onSet", p)
                 \o ExecuteGlobalInterceptors(E.gi, "before")
                 \o ConditionalDebugger(cfg.debug, p)
                 \o OverrideEv(cfg, "interceptSet", p)
      hasI == Truthy(cfg.interceptSet)
      iv == OverrideValue(cfg.interceptSet, p)
      consulted == Truthy(cfg.modifySetResult)
      ev2 == ev1 \o ModifierEv(cfg, "modifySetResult", p)
      shouldSet == ShouldSet(consulted, VetoModifierResult(cfg.modifySetResult, p))
      d == IF shouldSet THEN ReflectSet(AfterHooks(E), o, p, v)
                        ELSE Ret("false", FALSE, o, <<>>)
      ev3 == ev2 \o d.ev
  IN  IF hasI /\ cfg.interceptSet = "throw" THEN Ret(HookError, TRUE, o, ev1)
      ELSE IF hasI /\ IsBoolean(iv)
        THEN Ret(iv, FALSE, o, ev1 \o ExecuteHook(cfg.onAfter, "onAfter", p))
      ELSE IF consulted /\ cfg.modifySetResult = "throw" THEN Ret(HookError, TRUE, o, ev2)
      ELSE IF d.threw THEN Ret(d.res, TRUE, d.obj, ev3)
      ELSE Ret(d.res, FALSE, d.obj,
               ev3 \o ExecuteHook(cfg.onAfter, "onAfter", p)
                   \o ExecuteGlobalInterceptors(AfterBroadcast(E.gi), "after")
                   \o Log(AfterHooks(E), "debug", "Property set", TRUE))

\* _createSetInterceptor (facade.p = v)
SetInterceptor(E, o, p, v) ==
  LET old == OrdGet(o, p)           \* oldValue = Reflect.get(target, property, receiver)
      ev0 == TargetEv("get", p) \o old.fx \o GateEv(E.cfg, p)
      d == ReflectSet(E, old.obj, p, v)
  IN  IF old.threw THEN Ret(old.res, TRUE, old.obj, TargetEv("get", p) \o old.fx)
      ELSE IF GateClosed(E.cfg, p)
        THEN Ret(d.res, d.threw, d.obj, ev0 \o d.ev)
        ELSE Catch(E, SetBody(E, old.obj, p, v, ev0), "Property set error", p)

\* context.property of an apply/construct context: target.name || 'anonymous'
FnName == "fn"

\* what modifyArgs returns; `modifyArgs(context) || argumentsList`
ModifyArgs(tag, args) ==
  CASE tag = "swap" -> <<"v2">>
    [] tag = "empty" -> <<>>          \* an empty array is truthy
    [] OTHER -> args                  \* undefined: the original list is kept

\* the replacement function returned by replaceFunction returns "R"
ReplacementReturn == "R"

ReplacementTaken_Never(replacement) == FALSE

\* apply: `if (typeof replacement === 'function')` after replaceFunction
ReplacementTaken(replacement) == replacement = "fn"

\* the try block of _createApplyInterceptor
ApplyBody(E, o, args, ev0) ==
  LET cfg == E.cfg
      ev1 == ev0 \o ExecuteHook(cfg.onBefore, "onBefore", FnName)
                 \o ExecuteHook(cfg.onCall, "onCall", FnName)
                 \o ExecuteGlobalInterceptors(E.gi, "before")
                 \o ConditionalDebugger(cfg.debug, FnName)
                 \o OverrideEv(cfg, "interceptCall", FnName)
      hasI == Truthy(cfg.interceptCall)
      iv == OverrideValue(cfg.interceptCall, FnName)
      hasR == Truthy(cfg.replaceFunction)
      ev2 == ev1 \o OverrideEv(cfg, "replaceFunction", FnName)
      replaced == hasR /\ ReplacementTaken(OverrideValue(cfg.replaceFunction, FnName))
      hasA == Truthy(cfg.modifyArgs)
      ev3 == ev2 \o ModifierEv(cfg, "modifyArgs", FnName)
      finalArgs == IF hasA THEN ModifyArgs(cfg.modifyArgs, args) ELSE args
      d == OrdApply(o, finalArgs)
      ev4 == ev3 \o TargetEv("apply", FnReturn(finalArgs)) \o d.fx
      hasM == Truthy(cfg.modifyResult)
      ev5 == ev4 \o ModifierEv(cfg, "modifyResult", FnName)
      result == IF hasM THEN OrElse(ModifierValue(cfg.modifyResult, d.res), d.res)
                        ELSE d.res
  IN  IF hasI /\ cfg.interceptCall = "throw" THEN Ret(HookError, TRUE, o, ev1)
      ELSE IF hasI /\ iv # "undefined"
        THEN Ret(iv, FALSE, o, ev1 \o ExecuteHook(cfg.onAfter, "onAfter", FnName))
      ELSE IF hasR /\ cfg.replaceFunction = "throw" THEN Ret(HookError, TRUE, o, ev2)
      ELSE IF replaced
        THEN Ret(ReplacementReturn, FALSE, o,
                 ev2 \o << <<"function", "replacement", FnReturn(args)>> >>
                     \o ExecuteHook(cfg.onAfter, "onAfter", FnName))
      ELSE IF hasA /\ cfg.modifyArgs = "throw" THEN Ret(HookError, TRUE, o, ev3)
      ELSE IF d.threw THEN Ret(d.res, TRUE, d.obj, ev4)
      ELSE IF hasM /\ cfg.modifyResult = "throw" THEN Ret(HookError, TRUE, d.obj, ev5)
      ELSE Ret(result, FALSE, d.obj,
               ev5 \o ExecuteHook(cfg.onAfter, "onAfter", FnName)
                   \o ExecuteGlobalInterceptors(AfterBroadcast(E.gi), "after")
                   \o Log(AfterHooks(E), "debug", "Function called", TRUE))

\* _createApplyInterceptor
ApplyInterceptor(E, o, args) ==
  LET d == OrdApply(o, args) IN
  IF GateClosed(E.cfg, FnName)
    THEN Ret(d.res, d.threw, d.obj,
             GateEv(E.cfg, FnName) \o TargetEv("apply", FnReturn(args)) \o d.fx)
    ELSE Catch(E, ApplyBody(E, o, args, GateEv(E.cfg, FnName)),
               "Function call error", FnName)

\* the try block of _createConstructInterceptor
ConstructBody(E, o, args, ev0) ==
  LET cfg == E.cfg
      ev1 == ev0 \o ExecuteHook(cfg.onBefore, "onBefore", FnName)
                 \o ExecuteHook(cfg.onConstruct, "onConstruct", FnName)
                 \o ExecuteGlobalInterceptors(E.gi, "before")
                 \o ConditionalDebugger(cfg.debug, FnName)
                 \o OverrideEv(cfg, "interceptConstruct", FnName)
      hasI == Truthy(cfg.interceptConstruct)
      iv == OverrideValue(cfg.interceptConstruct, FnName)
      hasA == Truthy(cfg.modifyArgs)
      ev2 == ev1 \o ModifierEv(cfg, "modifyArgs", FnName)
      finalArgs == IF hasA THEN ModifyArgs(cfg.modifyArgs, args) ELSE args
      \* Reflect.construct reads newTarget.prototype: newTarget is the facade
      d == IF AfterHooks(E).rv THEN Out(TypeError, TRUE, o, <<>>)
                               ELSE OrdConstruct(o, finalArgs)
      ev3 == ev2 \o TargetEv("construct", FnReturn(finalArgs)) \o d.fx
  IN  IF hasI /\ cfg.interceptConstruct = "throw" THEN Ret(HookError, TRUE, o, ev1)
      ELSE IF hasI /\ iv # "undefined"
        THEN Ret(iv, FALSE, o, ev1 \o ExecuteHook(cfg.onAfter, "onAfter", FnName))
      ELSE IF hasA /\ cfg.modifyArgs = "throw" THEN Ret(HookError, TRUE, o, ev2)
      ELSE IF d.threw THEN Ret(d.res, TRUE, d.obj, ev3)
      ELSE Ret(d.res, FALSE, d.obj,
               ev3 \o ExecuteHook(cfg.onAfter, "onAfter", FnName)
                   \o ExecuteGlobalInterceptors(AfterBroadcast(E.gi), "after")
                   \o Log(AfterHooks(E), "debug", "Constructor called", TRUE))

\* _createConstructInterceptor
ConstructInterceptor(E, o, args) ==
  LET d == OrdConstruct(o, args) IN
  IF GateClosed(E.cfg, FnName)
    THEN Ret(d.res, d.threw, d.obj,
             GateEv(E.cfg, FnName) \o TargetEv("construct", FnReturn(args)) \o d.fx)
    ELSE Catch(E, ConstructBody(E, o, args, GateEv(E.cfg, FnName)),
               "Constructor call error", FnName)

\* ------------------------------------------------------ session registry
\* the record of the most recent call: the operation, what it was applied
\* to, its property or name argument p, its other arguments v (a tuple, an
\* option object or a descriptor), the returned value (a key list in keys, a
\* descriptor in desc, anything else in res), whether it threw, and the events
Call(op, on, p, v, res, threw, ev) ==
  [op |-> op, on |-> on, p |-> p, v |-> v, res |-> res, keys |-> <<>>,
   desc |-> Absent, threw |-> threw, ev |-> ev]

IsInvalidTarget_NoTypeCheck(target) == Falsy(target)

\* watch: !target || (typeof target !== 'object' && typeof target !== 'function')
IsInvalidTarget(target) ==
  Falsy(target) \/ (TypeOf(target) # "object" /\ TypeOf(target) # "function")

AlreadyWatched_Never(wo, target) == FALSE

\* watch: this.watchedObjects.has(target)
AlreadyWatched(wo, target) == MapHas(wo, target)

NextFacade_Reused == FacadeIds[1]

\* the identity of the next Proxy object
NextFacade == FacadeIds[Cardinality(DOMAIN proxies) + 1]

\* watch: if (name) this.namedObjects.set(name, { target, proxy })
RegisterName(no, name, target, proxy) ==
  IF Truthy(name) THEN MapSet(no, name, [target |-> target, proxy |-> proxy]) ELSE no

ProxyRevocable_Seals(o) == [o EXCEPT !.ext = FALSE]

\* Proxy.revocable(target, handler): the target object once the facade has
\* been created around it; the handler is only closures, the target is as before
ProxyRevocable(o) == o

\* watch(target, options, name)
Watch(target, options, name) ==
  IF IsInvalidTarget(target)
    THEN /\ last' = Call("watch", target, name, options, "undefined", TRUE, <<>>)
         /\ UNCHANGED <<registry, globalInterceptors, proxies, revoked, heap, opCount>>
  ELSE IF AlreadyWatched(watchedObjects, target)
    THEN /\ last' = Call("watch", target, name, options,
                         watchedObjects[target].proxy, FALSE,
                         << <<"console", "warn", "Object is already being watched">> >>)
         /\ UNCHANGED <<registry, globalInterceptors, proxies, revoked, heap, opCount>>
  ELSE LET config == NormalizeConfig(options)
           proxy == NextFacade
           watchInfo == [target |-> target, proxy |-> proxy,
                         config |-> config, name |-> name]
           wo == MapSet(watchedObjects, target, watchInfo)
       IN  /\ Cardinality(DOMAIN proxies) < MaxProxies
           /\ proxies' = MapSet(proxies, proxy, [target |-> target, config |-> config])
           /\ watchedObjects' = wo
           /\ proxyMetadata' = MapSet(proxyMetadata, proxy,
                                      [isWatchedProxy |-> TRUE, target |-> target])
           /\ namedObjects' = RegisterName(namedObjects, name, target, proxy)
           /\ heap' = [heap EXCEPT ![target] = ProxyRevocable(heap[target])]
           /\ last' = Call("watch", target, name, options, proxy, FALSE,
                           Log(Env(config, target, wo, globalInterceptors),
                               "info", "Started watching", TRUE))
           /\ UNCHANGED <<globalInterceptors, revoked, opCount>>

\* unwatch: the lookup of the session.  found: a by-target lookup is made for
\* `target`; otherwise unwatch returns `ret` at once.
UnwatchLookup(no, pm, proxyOrName) ==
  IF TypeOf(proxyOrName) = "string"
    THEN IF MapHas(no, proxyOrName)
           THEN [found |-> TRUE, target |-> no[proxyOrName].target, ret |-> "-"]
           ELSE [found |-> FALSE, target |-> "-", ret |-> "null"]
    ELSE IF MapHas(pm, proxyOrName) /\ pm[proxyOrName].isWatchedProxy
           THEN [found |-> TRUE, target |-> pm[proxyOrName].target, ret |-> "-"]
           ELSE [found |-> FALSE, target |-> "-", ret |-> proxyOrName]

Revoke_Skipped(rv, proxy) == rv

\* unwatch: revoke()
Revoke(rv, proxy) == rv \cup {proxy}

UnregisterName_Skipped(no, name) == no

\* unwatch: if (name) this.namedObjects.delete(name)
UnregisterName(no, name) == IF Truthy(name) THEN MapDelete(no, name) ELSE no

\* unwatch(proxyOrName)
Unwatch(proxyOrName) ==
  LET look == UnwatchLookup(namedObjects, proxyMetadata, proxyOrName) IN
  IF ~look.found
    THEN /\ last' = Call("unwatch", proxyOrName, "-", <<>>, look.ret, FALSE,
                         << <<"console", "warn", "not watched">> >>)
         /\ UNCHANGED <<registry, globalInterceptors, proxies, revoked, heap, opCount>>
  ELSE IF ~MapHas(watchedObjects, look.target)
    THEN /\ last' = Call("unwatch", proxyOrName, "-", <<>>, "null", FALSE,
                         << <<"console", "warn", "not watched">> >>)
         /\ UNCHANGED <<registry, globalInterceptors, proxies, revoked, heap, opCount>>
  ELSE LET watchInfo == watchedObjects[look.target]
           wo == MapDelete(watchedObjects, watchInfo.target)
       IN  /\ revoked' = Revoke(revoked, watchInfo.proxy)
           /\ watchedObjects' = wo
           /\ proxyMetadata' = MapDelete(proxyMetadata, watchInfo.proxy)
           /\ namedObjects' = UnregisterName(namedObjects, watchInfo.name)
           /\ last' = Call("unwatch", proxyOrName, "-", <<>>, watchInfo.target, FALSE,
                           Log(Env(watchInfo.config, watchInfo.target, wo,
                                   globalInterceptors),
                               "info", "Stopped watching", TRUE))
           /\ UNCHANGED <<globalInterceptors, proxies, heap, opCount>>

\* ------------------------------------------------- global observer chain
Observers == {"obsA"}

\* addGlobalInterceptor(interceptor)
AddGlobalInterceptor(interceptor) ==
  /\ Len(globalInterceptors) < MaxObservers
  /\ globalInterceptors' = Append(globalInterceptors, interceptor)
  /\ last' = Call("addGlobalInterceptor", interceptor, "-", <<>>, "undefined", FALSE, <<>>)
  /\ UNCHANGED <<registry, proxies, revoked, heap, opCount>>

\* indexOf: the first position of x in seq, 0 when absent
IndexOf(seq, x) ==
  IF \E i \in 1..Len(seq) : seq[i] = x
    THEN CHOOSE i \in 1..Len(seq) : seq[i] = x /\ \A j \in 1..(i - 1) : seq[j] # x
    ELSE 0

\* removeGlobalInterceptor(interceptor)
RemoveGlobalInterceptor(interceptor) ==
  LET index == IndexOf(globalInterceptors, interceptor) IN
  /\ globalInterceptors' =
       IF index > 0
         THEN SubSeq(globalInterceptors, 1, index - 1)
              \o SubSeq(globalInterceptors, index + 1, Len(globalInterceptors))
         ELSE globalInterceptors
  /\ last' = Call("removeGlobalInterceptor", interceptor, "-", <<>>, "undefined", FALSE, <<>>)
  /\ UNCHANGED <<registry, proxies, revoked, heap, opCount>>

\* ------------------------------------------------- operations on a facade
\* the environment the interceptors of facade f run in
FacadeEnv(f) == Env(proxies[f].config, proxies[f].target, watchedObjects, globalInterceptors)

\* any operation on a revoked Proxy throws a TypeError before any trap runs
RevokedOutcome(o) == Ret(TypeError, TRUE, o, <<>>)

\* the value an operation returned, by its type, or the error it raised
Returned(op, r) ==
  [res |-> IF r.threw THEN r.res
           ELSE IF op \in {"ownKeys", "getOwnPropertyDescriptor"} THEN "-"
           ELSE r.res,
   keys |-> IF op = "ownKeys" /\ ~r.threw THEN r.res ELSE <<>>,
   desc |-> IF op = "getOwnPropertyDescriptor" /\ ~r.threw THEN r.res ELSE Absent]

\* the observer list after an operation: each broadcast that called an
\* observer ran over the live list
ObserversAfter(gi, ev) ==
  LET ran(phase) == \E i \in 1..Len(ev) : ev[i][1] = "observer" /\ ev[i][2] = phase
      g1 == IF ran("before") THEN AfterBroadcast(gi) ELSE gi
  IN  IF ran("after") THEN AfterBroadcast(g1) ELSE g1

\* the onBefore hook of f ran in the operation and called unwatch(f)
Reentered(f, ev) ==
  /\ f \notin revoked
  /\ HookUnwatches(proxies[f].config)
  /\ \E i \in 1..Len(ev) : ev[i][1] = "hook" /\ ev[i][2] = "onBefore"

\* performs one fundamental operation on facade f: the outcome r of its
\* interceptor replaces the target object and is recorded
Perform(op, f, p, v, r) ==
  /\ opCount < MaxOps
  /\ opCount' = opCount + 1
  /\ heap' = [heap EXCEPT ![proxies[f].target] = r.obj]
  /\ last' = [Call(op, f, p, v, Returned(op, r).res, r.threw, r.ev)
               EXCEPT !.keys = Returned(op, r).keys, !.desc = Returned(op, r).desc]
  /\ globalInterceptors' = ObserversAfter(globalInterceptors, r.ev)
  /\ IF Reentered(f, r.ev)
       THEN LET watchInfo == watchedObjects[proxies[f].target] IN
            /\ revoked' = Revoke(revoked, watchInfo.proxy)
            /\ watchedObjects' = MapDelete(watchedObjects, watchInfo.target)
            /\ proxyMetadata' = MapDelete(proxyMetadata, watchInfo.proxy)
            /\ namedObjects' = UnregisterName(namedObjects, watchInfo.name)
       ELSE UNCHANGED <<registry, revoked>>
  /\ UNCHANGED proxies

TargetOf(f) == heap[proxies[f].target]

\* facade.p
Get(f, p) ==
  Perform("get", f, p, <<>>,
          IF f \in revoked THEN RevokedOutcome(TargetOf(f))
          ELSE GetInterceptor(FacadeEnv(f), TargetOf(f), p))

\* facade.p = v
Set(f, p, v) ==
  Perform("set", f, p, <<v>>,
          IF f \in revoked THEN RevokedOutcome(TargetOf(f))
          ELSE SetInterceptor(FacadeEnv(f), TargetOf(f), p, v))

\* p in facade
Has(f, p) ==
  Perform("has", f, p, <<>>,
          IF f \in revoked THEN RevokedOutcome(TargetOf(f))
          ELSE HasInterceptor(FacadeEnv(f), TargetOf(f), p))

\* delete facade.p
DeleteProperty(f, p) ==
  Perform("deleteProperty", f, p, <<>>,
          IF f \in revoked THEN RevokedOutcome(TargetOf(f))
          ELSE DeletePropertyInterceptor(FacadeEnv(f), TargetOf(f), p))

\* Reflect.defineProperty(facade, p, descriptor)
DefineProperty(f, p, din) ==
  Perform("defineProperty", f, p, din,
          IF f \in revoked THEN RevokedOutcome(TargetOf(f))
          ELSE DefinePropertyInterceptor(FacadeEnv(f), TargetOf(f), p, din))

\* Reflect.getOwnPropertyDescriptor(facade, p)
GetOwnPropertyDescriptor(f, p) ==
  Perform("getOwnPropertyDescriptor", f, p, <<>>,
          IF f \in revoked THEN RevokedOutcome(TargetOf(f))
          ELSE GetOwnPropertyDescriptorInterceptor(FacadeEnv(f), TargetOf(f), p))

\* Reflect.ownKeys(facade)
OwnKeys(f) ==
  Perform("ownKeys", f, "-", <<>>,
          IF f \in revoked THEN RevokedOutcome(TargetOf(f))
          ELSE OwnKeysInterceptor(FacadeEnv(f), TargetOf(f)))

\* Reflect.getPrototypeOf(facade)
GetPrototypeOf(f) ==
  Perform("getPrototypeOf", f, "-", <<>>,
          IF f \in revoked THEN RevokedOutcome(TargetOf(f))
          ELSE GetPrototypeOfInterceptor(FacadeEnv(f), TargetOf(f)))

\* Reflect.setPrototypeOf(facade, proto)
SetPrototypeOf(f, proto) ==
  Perform("setPrototypeOf", f, "-", <<proto>>,
          IF f \in revoked THEN RevokedOutcome(TargetOf(f))
          ELSE SetPrototypeOfInterceptor(FacadeEnv(f), TargetOf(f), proto))

\* Reflect.isExtensible(facade)
IsExtensible(f) ==
  Perform("isExtensible", f, "-", <<>>,
          IF f \in revoked THEN RevokedOutcome(TargetOf(f))
          ELSE IsExtensibleInterceptor(FacadeEnv(f), TargetOf(f)))

\* Reflect.preventExtensions(facade)
PreventExtensions(f) ==
  Perform("preventExtensions", f, "-", <<>>,
          IF f \in revoked THEN RevokedOutcome(TargetOf(f))
          ELSE PreventExtensionsInterceptor(FacadeEnv(f), TargetOf(f)))

\* facade(...args); only the facade of a function can be called
Apply(f, args) ==
  /\ proxies[f].target \in Callables
  /\ Perform("apply", f, "-", args,
             IF f \in revoked THEN RevokedOutcome(TargetOf(f))
             ELSE ApplyInterceptor(FacadeEnv(f), TargetOf(f), args))

\* new facade(...args)
Construct(f, args) ==
  /\ proxies[f].target \in Callables
  /\ Perform("construct", f, "-", args,
             IF f \in revoked THEN RevokedOutcome(TargetOf(f))
             ELSE ConstructInterceptor(FacadeEnv(f), TargetOf(f), args))

\* the function values an object's property may hold
MethodValues == {"fnM"}

\* facade.p(...args): the value of property p is read through the facade and
\* then called with the facade as receiver.  The value the get interceptor
\* returns is the function itself, not a facade of it, so the call is an
\* ordinary call; a value that is not a function cannot be called.
CallMethod(f, p, args) ==
  LET g == IF f \in revoked THEN RevokedOutcome(TargetOf(f))
           ELSE GetInterceptor(FacadeEnv(f), TargetOf(f), p)
  IN  Perform("callMethod", f, p, args,
              IF g.threw THEN g
              ELSE IF g.res \notin MethodValues
                THEN Ret(TypeError, TRUE, g.obj, g.ev)
              ELSE Ret(IF FnThrows(args) THEN "undefined" ELSE FnReturn(args),
                       FnThrows(args), g.obj,
                       g.ev \o << <<"function", "call", FnReturn(args)>> >>))

\* ------------------------------------------------------------ the system
\* the objects callers hand to watch
PlainObject ==
  [props |-> [p \in Props |-> IF p = "a" THEN DataDesc("v1", TRUE, TRUE) ELSE Absent],
   keys |-> <<"a">>, proto |-> "P0", ext |-> TRUE, touched |-> FALSE]
\* an object with a side-effecting accessor a and a frozen property b
AccessorObject ==
  [props |-> [p \in Props |-> IF p = "a" THEN AccDesc("v1", TRUE, TRUE)
                                         ELSE DataDesc("v2", FALSE, FALSE)],
   keys |-> <<"a", "b">>, proto |-> "P0", ext |-> TRUE, touched |-> FALSE]
FunctionObject ==
  [props |-> [p \in Props |-> Absent],
   keys |-> <<>>, proto |-> "P0", ext |-> TRUE, touched |-> FALSE]

ArgLists == {<<>>, <<"v1">>, <<"boom">>}
DescIns == {DescIn("v1", "T", "T"), DescIn("v2", "F", "F")}
WatchArgs == Targets \cup {"null", "undefined", "num7", "str", "true"}
UnwatchArgs == Names \cup UnknownNames \cup Targets \cup OtherObjects \cup DOMAIN proxies

NoCall == Call("none", "-", "-", <<>>, "undefined", FALSE, <<>>)

Init ==
  /\ watchedObjects = EmptyMap
  /\ namedObjects = EmptyMap
  /\ proxyMetadata = EmptyMap
  /\ globalInterceptors = <<>>
  /\ proxies = EmptyMap
  /\ revoked = {}
  /\ heap \in {[t \in Objects |-> IF t \in Callables THEN FunctionObject ELSE o] :
               o \in {PlainObject, AccessorObject}}
  /\ opCount = 0
  /\ last = NoCall

\* the registry alone: install and revoke over every target and name
NextRegistry ==
  \/ \E t \in WatchArgs, o \in RegistryOptions, n \in Names \cup {"null"} : Watch(t, o, n)
  \/ \E x \in UnwatchArgs : Unwatch(x)

SpecRegistry == Init /\ [][NextRegistry]_vars

\* one session and the operations performed through its facade, before and
\* after it is revoked
Next ==
  \/ \E t \in Targets, o \in Options : proxies = EmptyMap /\ Watch(t, o, "null")
  \/ \E f \in DOMAIN proxies : Unwatch(f)
  \/ \E i \in Observers : AddGlobalInterceptor(i)
  \/ \E i \in Observers : RemoveGlobalInterceptor(i)
  \/ \E f \in DOMAIN proxies, p \in Props : Get(f, p)
  \/ \E f \in DOMAIN proxies, p \in Props, v \in Values : Set(f, p, v)
  \/ \E f \in DOMAIN proxies, p \in Props : Has(f, p)
  \/ \E f \in DOMAIN proxies, p \in Props : DeleteProperty(f, p)
  \/ \E f \in DOMAIN proxies, p \in Props, d \in DescIns : DefineProperty(f, p, d)
  \/ \E f \in DOMAIN proxies, p \in Props : GetOwnPropertyDescriptor(f, p)
  \/ \E f \in DOMAIN proxies : OwnKeys(f)
  \/ \E f \in DOMAIN proxies : GetPrototypeOf(f)
  \/ \E f \in DOMAIN proxies, proto \in Protos : SetPrototypeOf(f, proto)
  \/ \E f \in DOMAIN proxies : IsExtensible(f)
  \/ \E f \in DOMAIN proxies : PreventExtensions(f)
  \/ \E f \in DOMAIN proxies, args \in ArgLists : Apply(f, args)
  \/ \E f \in DOMAIN proxies, args \in ArgLists : Construct(f, args)

Spec == Init /\ [][Next]_vars

\* sessions installed, revoked and installed again on a function (the one
\* kind of target all 13 operations apply to), with every hook and veto
\* modifier configured and an observer registered, and the operations
\* performed through their facades, live or revoked
NextLifecycle ==
  \/ \E t \in Targets \cap Callables : Watch(t, OptVeto, "null")
  \/ \E f \in DOMAIN proxies : Unwatch(f)
  \/ \E i \in Observers : AddGlobalInterceptor(i)
  \/ \E f \in DOMAIN proxies, p \in Props : Get(f, p)
  \/ \E f \in DOMAIN proxies, p \in Props, v \in Values : Set(f, p, v)
  \/ \E f \in DOMAIN proxies, p \in Props : Has(f, p)
  \/ \E f \in DOMAIN proxies, p \in Props : DeleteProperty(f, p)
  \/ \E f \in DOMAIN proxies, p \in Props, d \in DescIns : DefineProperty(f, p, d)
  \/ \E f \in DOMAIN proxies, p \in Props : GetOwnPropertyDescriptor(f, p)
  \/ \E f \in DOMAIN proxies : OwnKeys(f)
  \/ \E f \in DOMAIN proxies : GetPrototypeOf(f)
  \/ \E f \in DOMAIN proxies, proto \in Protos : SetPrototypeOf(f, proto)
  \/ \E f \in DOMAIN proxies : IsExtensible(f)
  \/ \E f \in DOMAIN proxies : PreventExtensions(f)
  \/ \E f \in DOMAIN proxies, args \in ArgLists : Apply(f, args)
  \/ \E f \in DOMAIN proxies, args \in ArgLists : Construct(f, args)

SpecLifecycle == Init /\ [][NextLifecycle]_vars

\* the configurations a target is watched with, and watched again with
RewatchOptions == {OptVeto, OptEmpty}

\* sessions installed, revoked and installed again on one target, and the
\* reads and writes through their facades, revoked ones included
NextRewatch ==
  \/ \E t \in Targets \ Callables, o \in RewatchOptions : Watch(t, o, "null")
  \/ \E f \in DOMAIN proxies : Unwatch(f)
  \/ \E f \in DOMAIN proxies, p \in Props : Get(f, p)
  \/ \E f \in DOMAIN proxies, p \in Props, v \in Values : Set(f, p, v)
  \/ \E f \in DOMAIN proxies, p \in Props : DeleteProperty(f, p)

SpecRewatch == Init /\ [][NextRewatch]_vars

\* an observer that returns, and one that removes itself when it is called
ReentrantObservers == {"obsA", "obsLeave"}
\* an onBefore hook that calls unwatch on the facade of its context
OptUnwatchInHook == Merge(AllHooks, [onBefore |-> "unwatch"])
ReentrantOptions == {AllHooks, OptUnwatchInHook}

\* one session at a time on a target that is an object and a function, with
\* hooks and observers that call back into the manager during an invocation
NextReentrant ==
  \/ \E t \in Targets \cap Callables, o \in ReentrantOptions :
       proxies = EmptyMap /\ Watch(t, o, "null")
  \/ \E i \in ReentrantObservers : AddGlobalInterceptor(i)
  \/ \E f \in DOMAIN proxies, p \in Props : Get(f, p)
  \/ \E f \in DOMAIN proxies, p \in Props, v \in Values : Set(f, p, v)
  \/ \E f \in DOMAIN proxies, args \in ArgLists : Apply(f, args)
  \/ \E f \in DOMAIN proxies, args \in ArgLists : Construct(f, args)

SpecReentrant == Init /\ [][NextReentrant]_vars

\* an object whose property a holds a function: { a: (x) => x }
MethodObject ==
  [props |-> [p \in Props |-> IF p = "a" THEN DataDesc("fnM", TRUE, TRUE) ELSE Absent],
   keys |-> <<"a">>, proto |-> "P0", ext |-> TRUE, touched |-> FALSE]

\* a configuration in the reduced per-kind shape of the earlier API:
\* { get: {log, debugger, onModResult}, apply: {log, debugger, onModResult} }
\* with an onModResult that answers "X"
OptReduced ==
  [get |-> [log |-> "true", debugger |-> "false", onModResult |-> "X"],
   apply |-> [log |-> "true", debugger |-> "false", onModResult |-> "X"]]

\* watchObj(obj, options, objName): the deprecated entry point
WatchObj(obj, options, objName) == Watch(obj, options, objName)

InitMethods ==
  /\ watchedObjects = EmptyMap
  /\ namedObjects = EmptyMap
  /\ proxyMetadata = EmptyMap
  /\ globalInterceptors = <<>>
  /\ proxies = EmptyMap
  /\ revoked = {}
  /\ heap = [t \in Objects |-> IF t \in Callables THEN FunctionObject ELSE MethodObject]
  /\ opCount = 0
  /\ last = NoCall

\* sessions on the object with a method and on a function, an observer, and
\* reads, method calls and calls through the facades
NextMethods ==
  \/ \E t \in Targets, o \in {OptEmpty, AllHooks, OptGateA} : Watch(t, o, "null")
  \/ \E t \in Targets : WatchObj(t, OptReduced, "null")
  \/ \E i \in Observers : AddGlobalInterceptor(i)
  \/ \E f \in DOMAIN proxies, p \in Props : Get(f, p)
  \/ \E f \in DOMAIN proxies, p \in Props, args \in ArgLists : CallMethod(f, p, args)
  \/ \E f \in DOMAIN proxies, args \in ArgLists : Apply(f, args)

SpecMethods == InitMethods /\ [][NextMethods]_vars

\* an object whose accessor a has a getter that throws, and whose accessor b
\* has a setter that throws for the value "boom"
FaultyObject ==
  [props |-> [p \in Props |-> IF p = "a" THEN AccDesc("boom", TRUE, TRUE)
                                         ELSE AccDesc("v1", TRUE, TRUE)],
   keys |-> <<"a", "b">>, proto |-> "P0", ext |-> TRUE, touched |-> FALSE]

InitFaults ==
  /\ watchedObjects = EmptyMap
  /\ namedObjects = EmptyMap
  /\ proxyMetadata = EmptyMap
  /\ globalInterceptors = <<>>
  /\ proxies = EmptyMap
  /\ revoked = {}
  /\ heap \in {[t \in Objects |-> IF t \in Callables THEN FunctionObject ELSE o] :
               o \in {FaultyObject, PlainObject}}
  /\ opCount = 0
  /\ last = NoCall

\* an error hook that itself throws
OptOnErrorThrows == Merge(AllHooks, [onError |-> "throw"])
\* override and replacement hooks that throw
OptOverrideThrows ==
  Merge(AllHooks, [interceptGet |-> "throw", interceptSet |-> "throw",
                   interceptCall |-> "throw", interceptConstruct |-> "throw"])
OptReplaceThrows == Merge(AllHooks, [replaceFunction |-> "throw"])
\* modifiers that throw
OptModifierThrows ==
  Merge(AllHooks, [modifyArgs |-> "throw", modifyGetResult |-> "throw",
                   modifySetResult |-> "throw", modifyHasResult |-> "throw",
                   modifyDeleteResult |-> "throw"])
OptResultThrows == Merge(AllHooks, [modifyResult |-> "throw"])
\* before-, kind-specific and after-hooks that throw
OptHooksThrow ==
  [onBefore |-> "throw", onAfter |-> "throw", onGet |-> "throw", onSet |-> "throw",
   onDefine |-> "throw", onDelete |-> "throw", onHas |-> "throw",
   onCall |-> "throw", onConstruct |-> "throw"]
FaultOptions == {OptEmpty, AllHooks, OptOnErrorThrows, OptGateOff, OptOverrideThrows,
                 OptReplaceThrows, OptModifierThrows, OptResultThrows, OptHooksThrow}

\* one session at a time on an object or a function whose code can throw,
\* or whose configuration has hooks that throw; an observer; and the
\* operations through the facade
NextFaults ==
  \/ \E t \in Targets, o \in FaultOptions : proxies = EmptyMap /\ Watch(t, o, "null")
  \/ \E i \in Observers : AddGlobalInterceptor(i)
  \/ \E f \in DOMAIN proxies, p \in Props : Get(f, p)
  \/ \E f \in DOMAIN proxies, p \in Props, v \in {"v1", "boom"} : Set(f, p, v)
  \/ \E f \in DOMAIN proxies, p \in Props : Has(f, p)
  \/ \E f \in DOMAIN proxies, p \in Props : DeleteProperty(f, p)
  \/ \E f \in DOMAIN proxies, p \in Props, d \in DescIns : DefineProperty(f, p, d)
  \/ \E f \in DOMAIN proxies, args \in ArgLists : Apply(f, args)
  \/ \E f \in DOMAIN proxies, args \in ArgLists : Construct(f, args)

SpecFaults == InitFaults /\ [][NextFaults]_vars

\* the observers registered with addGlobalInterceptor: two that return and
\* one that throws
ChainObservers == {"obsA", "obsB", "obsThrow"}

\* configurations of the sessions on invocable targets: no hooks; hooks with
\* an override and a replacement hook that decline; a gate that is closed; an
\* override that answers
OptDecline ==
  Merge(AllHooks, [interceptCall |-> "XforA", interceptConstruct |-> "XforA",
                   replaceFunction |-> "X"])
OptAnswer == [interceptCall |-> "X"]
ChainOptions == {OptEmpty, OptDecline, OptGateOff, OptAnswer}

\* sessions on the invocable targets, the observer chain, and the
\* invocations (call and construction) that broadcast to it
NextObservers ==
  \/ \E t \in Callables, o \in ChainOptions : Watch(t, o, "null")
  \/ \E i \in ChainObservers : AddGlobalInterceptor(i)
  \/ \E i \in ChainObservers : RemoveGlobalInterceptor(i)
  \/ \E f \in DOMAIN proxies, args \in ArgLists : Apply(f, args)
  \/ \E f \in DOMAIN proxies, args \in ArgLists : Construct(f, args)

SpecObservers == Init /\ [][NextObservers]_vars

\* result modifiers that answer context.success (true) for every attempt
OptEcho ==
  Merge(AllHooks, [modifySetResult |-> "echo", modifyDefineResult |-> "echo",
                   modifyDeleteResult |-> "echo"])
\* an interceptSet that answers true, false, or a value that is no boolean
OptSetTrue == Merge(AllHooks, [interceptSet |-> "retTrue", modifySetResult |-> "veto"])
OptSetFalse == Merge(AllHooks, [interceptSet |-> "retFalse"])
OptSetOther == Merge(AllHooks, [interceptSet |-> "X", modifySetResult |-> "vetoA"])
\* a replaceFunction that supplies a function, before an argument modifier
OptReplace == Merge(AllHooks, [replaceFunction |-> "fn", modifyArgs |-> "swap"])
\* a modifyArgs that returns an empty list
OptArgsEmpty == Merge(AllHooks, [modifyArgs |-> "empty"])
\* result modifiers of the read operations; those of has, get and apply
\* answer false
OptFalsy ==
  Merge(AllHooks,
    [modifyHasResult |-> "retFalse", modifyGetResult |-> "retFalse",
     modifyResult |-> "retFalse", modifyPrototypeResult |-> "P1",
     modifyOwnKeysResult |-> "hideB", modifyDescriptorResult |-> "readonly"])
\* every stage of a call configured, with a gate that is open, an override
\* and a replacement hook that decline, and modifiers that answer
OptEveryStage ==
  Merge(AllHooks,
    [shouldIntercept |-> "always", debug |-> "fnTrue", logLevel |-> "debug",
     enableTiming |-> "true", enableStackTrace |-> "true",
     interceptCall |-> "XforA", replaceFunction |-> "X", modifyArgs |-> "swap",
     modifyResult |-> "X"])
\* a log toggle that is a predicate answering true for property a only
OptLogPredicate == [log |-> "onlyA", logLevel |-> "debug"]
\* the configurations whose override, replacement and modifier hooks answer
ModifierOptions ==
  {OptVetoA, OptEcho, OptSetTrue, OptSetFalse, OptSetOther, OptReplace, OptDecline,
   OptArgsEmpty, OptFalsy, OptEveryStage, OptLogPredicate}

\* one session at a time with override, replacement and modifier hooks, an
\* observer, and the operations those hooks act on
NextModifiers ==
  \/ \E t \in Targets, o \in ModifierOptions : proxies = EmptyMap /\ Watch(t, o, "null")
  \/ \E i \in Observers : AddGlobalInterceptor(i)
  \/ \E f \in DOMAIN proxies, p \in Props : Get(f, p)
  \/ \E f \in DOMAIN proxies, p \in Props, v \in Values : Set(f, p, v)
  \/ \E f \in DOMAIN proxies, p \in Props : Has(f, p)
  \/ \E f \in DOMAIN proxies, p \in Props : DeleteProperty(f, p)
  \/ \E f \in DOMAIN proxies, p \in Props, d \in DescIns : DefineProperty(f, p, d)
  \/ \E f \in DOMAIN proxies, p \in Props : GetOwnPropertyDescriptor(f, p)
  \/ \E f \in DOMAIN proxies : OwnKeys(f)
  \/ \E f \in DOMAIN proxies : GetPrototypeOf(f)
  \/ \E f \in DOMAIN proxies, args \in ArgLists : Apply(f, args)
  \/ \E f \in DOMAIN proxies, args \in ArgLists : Construct(f, args)

SpecModifiers == Init /\ [][NextModifiers]_vars

\* ============================================================ properties
\* the facades of target t that have not been revoked
ActiveFacadesOf(t) == {f \in DOMAIN proxies : f \notin revoked /\ proxies[f].target = t}

\* C1 (round trip): unwatch applied to a facade that watch returned and that
\* has not been revoked yet returns the very target the facade was created
\* for, revokes the facade and leaves no registry entry of that session: none
\* by target, none by facade, none by name.
C1_RoundTrip ==
  [][\A f \in DOMAIN proxies :
       (f \notin revoked /\ last'.op = "unwatch" /\ last'.on = f)
         => /\ ~last'.threw
            /\ last'.res = proxies[f].target
            /\ f \in revoked'
            /\ ~MapHas(watchedObjects', proxies[f].target)
            /\ ~MapHas(proxyMetadata', f)
            /\ \A n \in DOMAIN namedObjects' : namedObjects'[n].proxy # f]_vars

\* a named session has been revoked through its facade and its target returned
C1_Witness ==
  /\ last.op = "unwatch"
  /\ last.on \in DOMAIN proxies
  /\ last.res = proxies[last.on].target
  /\ last.on \in revoked
  /\ "n1" \notin DOMAIN namedObjects
  /\ Cardinality(DOMAIN proxies) >= 2

\* C2 (idempotent install): watch on a target that has an active session
\* returns that session's facade and changes nothing: no facade is created,
\* and the registry (with the session's configuration and name) and the
\* configuration the facade's interceptors use stay as they were.
C2_IdempotentInstall ==
  [][\A t \in DOMAIN watchedObjects :
       (last'.op = "watch" /\ last'.on = t)
         => /\ ~last'.threw
            /\ last'.res = watchedObjects[t].proxy
            /\ UNCHANGED <<registry, proxies, revoked, globalInterceptors, heap>>]_vars

\* a second watch, with a name, on a target watched without one
C2_Witness ==
  /\ last.op = "watch"
  /\ last.p = "n1"
  /\ last.on \in DOMAIN watchedObjects
  /\ last.res = watchedObjects[last.on].proxy
  /\ watchedObjects[last.on].name = "null"
  /\ last.ev = << <<"console", "warn", "Object is already being watched">> >>

\* C3 (one session per target): every target has at most one session record
\* and at most one facade that is not revoked; a target has such a facade
\* exactly when it has a session, the facade is the session's, and it is not
\* the target itself.
C3_OneSessionPerTarget ==
  \A t \in Targets :
    /\ Cardinality({x \in DOMAIN watchedObjects : watchedObjects[x].target = t}) <= 1
    /\ Cardinality(ActiveFacadesOf(t)) <= 1
    /\ ActiveFacadesOf(t) =
         IF MapHas(watchedObjects, t) THEN {watchedObjects[t].proxy} ELSE {}
    /\ t \notin ActiveFacadesOf(t)

\* a target watched again after its first session was revoked
C3_Witness ==
  \E t \in Targets :
    /\ Cardinality({f \in DOMAIN proxies : proxies[f].target = t}) >= 2
    /\ Cardinality(ActiveFacadesOf(t)) = 1

\* C4 (invalid target): watch on a value that is neither an object nor a
\* function throws, creates no facade and leaves the registry unchanged.
C4_InvalidTargetThrows ==
  [][(last'.op = "watch" /\ last'.on \in Primitives)
       => /\ last'.threw
          /\ UNCHANGED <<registry, proxies, revoked, globalInterceptors, heap>>]_vars

\* watch was called on a (truthy) string while a session exists
C4_Witness ==
  /\ last.op = "watch"
  /\ last.on = "str"
  /\ last.threw
  /\ DOMAIN watchedObjects # {}

\* C5 (unknown handle): unwatch of an argument that resolves to no active
\* session (a name that is not registered, a revoked facade, an object that
\* never was a facade) returns null and changes nothing.
C5_UnknownHandleReturnsNull ==
  [][\A x \in UnknownNames \cup Names \cup OtherObjects \cup revoked :
       (/\ last'.op = "unwatch"
        /\ last'.on = x
        /\ (TypeOf(x) = "string" => ~MapHas(namedObjects, x)))
         => /\ last'.res = "null"
            /\ UNCHANGED <<registry, proxies, revoked, globalInterceptors, heap>>]_vars

\* C6 (revoke by target): unwatch called with a watched target itself ends
\* the session: the facade is revoked, the registry entries are removed and
\* the target is returned.
C6_UnwatchByTarget ==
  [][\A t \in DOMAIN watchedObjects :
       (last'.op = "unwatch" /\ last'.on = t)
         => /\ last'.res = t
            /\ watchedObjects[t].proxy \in revoked'
            /\ ~MapHas(watchedObjects', t)
            /\ ~MapHas(proxyMetadata', watchedObjects[t].proxy)]_vars

\* ---- properties of the operations performed through a facade (Spec)
OpKinds == {"get", "set", "has", "deleteProperty", "defineProperty",
            "getOwnPropertyDescriptor", "ownKeys", "getPrototypeOf",
            "setPrototypeOf", "isExtensible", "preventExtensions",
            "apply", "construct"}

\* the same operation performed directly on the target object o
Direct(op, o, p, v) ==
  CASE op = "get" -> OrdGet(o, p)
    [] op = "set" -> OrdSet(o, p, v[1])
    [] op = "has" -> OrdHas(o, p)
    [] op = "deleteProperty" -> OrdDelete(o, p)
    [] op = "defineProperty" -> OrdDefine(o, p, v)
    [] op = "getOwnPropertyDescriptor" -> OrdGetOwnProperty(o, p)
    [] op = "ownKeys" -> OrdOwnKeys(o)
    [] op = "getPrototypeOf" -> OrdGetPrototypeOf(o)
    [] op = "setPrototypeOf" -> OrdSetPrototypeOf(o, v[1])
    [] op = "isExtensible" -> OrdIsExtensible(o)
    [] op = "preventExtensions" -> OrdPreventExtensions(o)
    [] op = "apply" -> OrdApply(o, v)
    [] op = "construct" -> OrdConstruct(o, v)

\* the events of the given classes, in order
EventsOf(ev, classes) == SelectSeq(ev, LAMBDA e : e[1] \in classes)

\* code of the target that ran during the call: accessors and the function body
TargetCode(ev) == EventsOf(ev, {"accessor", "function", "fault"})

\* this step is an operation of kind last'.op on the live facade f
OperationOn(f) ==
  /\ f \notin revoked
  /\ last'.op \in OpKinds
  /\ last'.on = f

\* the operation of this step has the same result as d (value or fault), and
\* the same outcome: also the target object afterwards and the code of the
\* target that ran
SameResult(d) ==
  /\ last'.threw = d.threw
  /\ last'.res = Returned(last'.op, d).res
  /\ last'.keys = Returned(last'.op, d).keys
  /\ last'.desc = Returned(last'.op, d).desc

SameOutcome(f, d) ==
  /\ SameResult(d)
  /\ heap'[proxies[f].target] = d.obj
  /\ TargetCode(last'.ev) = d.fx

ContextProperty(op, p) ==
  IF op \in {"apply", "construct"} THEN FnName
  ELSE IF op \in {"ownKeys", "getPrototypeOf", "setPrototypeOf", "isExtensible",
                  "preventExtensions"} THEN "undefined"
  ELSE p

\* the classes of events the pass-through law rules out
PipelineClasses == {"hook", "override", "modifier", "observer", "debugger", "log", "console"}

\* C8 (pass-through): an operation of any kind on a facade whose gate answers
\* false for it runs no hook, override, modifier, observer or log line, and
\* its outcome is that of the direct operation on the target.
C8_PassThrough ==
  [][\A f \in DOMAIN proxies :
       (OperationOn(f)
        /\ GateClosed(proxies[f].config, ContextProperty(last'.op, last'.p)))
         => /\ EventsOf(last'.ev, PipelineClasses) = <<>>
            /\ SameResult(Direct(last'.op, TargetOf(f), last'.p, last'.v))]_vars

\* the result modifier of an operation kind
VetoModifierOf(op) ==
  CASE op = "set" -> "modifySetResult"
    [] op = "defineProperty" -> "modifyDefineResult"
    [] op = "deleteProperty" -> "modifyDeleteResult"

InSeq(x, seq) == \E i \in 1..Len(seq) : seq[i] = x

\* the modifier of this step's operation was consulted and answered false
Vetoed(f) ==
  /\ OperationOn(f)
  /\ last'.op \in {"set", "defineProperty", "deleteProperty"}
  /\ InSeq(<<"modifier", VetoModifierOf(last'.op), last'.p>>, last'.ev)
  /\ VetoModifierResult(proxies[f].config[VetoModifierOf(last'.op)], last'.p) = "false"

\* C9 (veto): when the result modifier of a set, defineProperty or
\* deleteProperty answers false, that operation is not performed on the
\* target, the target's properties, prototype and extensibility are unchanged
\* and the interceptor reports false.
C9_Veto ==
  [][\A f \in DOMAIN proxies :
       Vetoed(f)
         => /\ last'.res = "false"
            /\ ~last'.threw
            /\ ~InSeq(<<"target", last'.op, last'.p>>, last'.ev)
            /\ heap'[proxies[f].target].props = TargetOf(f).props
            /\ heap'[proxies[f].target].keys = TargetOf(f).keys
            /\ heap'[proxies[f].target].proto = TargetOf(f).proto
            /\ heap'[proxies[f].target].ext = TargetOf(f).ext]_vars

\* the delete of a configurable property was vetoed and the property is
\* still there
C9_Witness ==
  /\ last.op = "deleteProperty"
  /\ last.p = "a"
  /\ last.on \in DOMAIN proxies \ revoked
  /\ proxies[last.on].config.modifyDeleteResult = "vetoA"
  /\ InSeq(<<"modifier", "modifyDeleteResult", "a">>, last.ev)
  /\ last.res = "false"
  /\ TargetOf(last.on).props["a"] = DataDesc("v1", TRUE, TRUE)

\* C10 (full override): without a gate, when interceptGet returns a defined
\* value for property p, a read of facade.p returns that value and performs
\* no read on the target: no accessor of the target runs and the target is
\* unchanged.
C10_FullOverride ==
  [][\A f \in DOMAIN proxies :
       (/\ OperationOn(f)
        /\ last'.op = "get"
        /\ ~GateConfigured(proxies[f].config)
        /\ IsFunction(proxies[f].config.interceptGet)
        /\ OverrideValue(proxies[f].config.interceptGet, last'.p) # "undefined")
         => /\ last'.res = OverrideValue(proxies[f].config.interceptGet, last'.p)
            /\ ~last'.threw
            /\ EventsOf(last'.ev, {"target", "accessor", "function"}) = <<>>
            /\ heap' = heap]_vars

\* an overridden read of a property that is a side-effecting accessor on the
\* target, whose getter has never run
C10_Witness ==
  /\ last.op = "get"
  /\ last.p = "a"
  /\ last.on \in DOMAIN proxies \ revoked
  /\ proxies[last.on].config.interceptGet = "XforA"
  /\ last.res = "X"
  /\ TargetOf(last.on).props["a"].k = "acc"
  /\ ~TargetOf(last.on).touched

\* ---- properties of the observer chain (SpecObservers)
\* how many times x occurs in seq
CountIn(seq, x) == Cardinality({i \in 1..Len(seq) : seq[i] = x})

\* how many times observer o was called with the given phase
Broadcasts(ev, phase, o) == CountIn(ev, <<"observer", phase, o>>)

\* two sessions are active, on distinct targets
TwoSessions ==
  \E f1, f2 \in DOMAIN proxies \ revoked : proxies[f1].target # proxies[f2].target

\* in this step's invocation every registration of every observer was called
\* once with phase 'before' and once with phase 'after'
OncePerPhase ==
  \A o \in ChainObservers :
    /\ Broadcasts(last'.ev, "before", o) = CountIn(globalInterceptors, o)
    /\ Broadcasts(last'.ev, "after", o) = CountIn(globalInterceptors, o)

Delegated(f) ==
  /\ ~GateClosed(proxies[f].config, FnName)
  /\ \E i \in 1..Len(last'.ev) :
       last'.ev[i][1] = "target" /\ last'.ev[i][2] = last'.op
  /\ ~last'.threw

Intercept(op, E, o, p, v) ==
  CASE op = "get" -> GetInterceptor(E, o, p)
    [] op = "set" -> SetInterceptor(E, o, p, v[1])
    [] op = "has" -> HasInterceptor(E, o, p)
    [] op = "deleteProperty" -> DeletePropertyInterceptor(E, o, p)
    [] op = "defineProperty" -> DefinePropertyInterceptor(E, o, p, v)
    [] op = "getOwnPropertyDescriptor" -> GetOwnPropertyDescriptorInterceptor(E, o, p)
    [] op = "ownKeys" -> OwnKeysInterceptor(E, o)
    [] op = "getPrototypeOf" -> GetPrototypeOfInterceptor(E, o)
    [] op = "setPrototypeOf" -> SetPrototypeOfInterceptor(E, o, v[1])
    [] op = "isExtensible" -> IsExtensibleInterceptor(E, o)
    [] op = "preventExtensions" -> PreventExtensionsInterceptor(E, o)
    [] op = "apply" -> ApplyInterceptor(E, o, v)
    [] op = "construct" -> ConstructInterceptor(E, o, v)

\* the observer list with every throwing observer replaced by one that returns
Calm(gi) == [i \in 1..Len(gi) |-> IF gi[i] = "obsThrow" THEN "obsA" ELSE gi[i]]

\* a broadcast of the given phase took place in this step's invocation
Broadcast(phase) ==
  \E i \in 1..Len(last'.ev) : last'.ev[i][1] = "observer" /\ last'.ev[i][2] = phase

Unwatched == DOMAIN proxies \ DOMAIN proxyMetadata

\* C13 (revoked facade): once unwatch has succeeded for a session, every
\* fundamental operation on its facade fails with an error, runs no hook,
\* modifier or observer and neither reads nor changes the target; and a
\* facade in that condition stays in it, whatever is watched or unwatched
\* afterwards.
C13_RevokedInert ==
  [][/\ \A f \in Unwatched :
          (last'.op \in OpKinds /\ last'.on = f)
            => /\ last'.threw
               /\ last'.ev = <<>>
               /\ heap' = heap
     /\ Unwatched \subseteq Unwatched']_vars

\* an assignment through the first facade failed after its session had been
\* revoked and its target had been given a new session
C13_Witness ==
  /\ last.op = "set"
  /\ last.on = FacadeIds[1]
  /\ last.on \in Unwatched
  /\ last.threw
  /\ MapHas(watchedObjects, proxies[last.on].target)
  /\ watchedObjects[proxies[last.on].target].proxy = FacadeIds[2]
  /\ globalInterceptors # <<>>

\* ---- further properties of the registry (SpecRegistry)
\* C14 (lifecycle leaves the target alone): no watch and no unwatch call
\* changes a target; its own properties, their order, its prototype and its
\* extensibility after any sequence of such calls are those it had before.
C14_LifecycleKeepsTarget ==
  [][last'.op \in {"watch", "unwatch"} => heap' = heap]_vars

\* a session on the object with an accessor and a frozen property has been
\* installed and revoked again, and the object is what it was
C14_Witness ==
  /\ last.op = "unwatch"
  /\ last.res \in Targets
  /\ revoked # {}
  /\ heap[last.res] = AccessorObject

\* ---- method calls through a facade (SpecMethods)
\* C15 (method call): on the facade of an object whose property p holds a
\* function, with onGet and onCall configured and no gate, a call facade.p(args)
\* fires onGet for the read of p and also runs the invoke pipeline: onCall
\* fires with context.property p and the observers receive 'before' for it.
C15_MethodCallRunsInvoke ==
  [][\A f \in DOMAIN proxies \ revoked :
       (/\ last'.op = "callMethod"
        /\ last'.on = f
        /\ TargetOf(f).props[last'.p].v \in MethodValues
        /\ proxies[f].config = NormalizeConfig(AllHooks))
         => /\ InSeq(<<"hook", "onGet", last'.p>>, last'.ev)
            /\ InSeq(<<"hook", "onCall", last'.p>>, last'.ev)]_vars

\* ---- faults (SpecFaults)
\* the kinds whose interceptor has a try/catch
ContainedKinds == {"get", "set", "apply", "construct"}

\* in this step's invocation the operation was delegated to the target and
\* code of the target (getter, setter, function body) raised an error in it
DelegationFault ==
  \E i, j \in 1..Len(last'.ev) :
    /\ i < j
    /\ last'.ev[i][1] = "target" /\ last'.ev[i][2] = last'.op
    /\ last'.ev[j][1] = "fault"

\* the configured onError hook of f was called exactly once in this step's
\* invocation, after the fault, and the caller received the target's error
ErrorHookThenRaise(f) ==
  LET onError == <<"hook", "onError", ContextProperty(last'.op, last'.p)>>
  IN  /\ last'.threw
      /\ last'.res = TargetError
      /\ IsFunction(proxies[f].config.onError)
           => /\ CountIn(last'.ev, onError) = 1
              /\ \A i, j \in 1..Len(last'.ev) :
                   (last'.ev[i][1] = "fault" /\ last'.ev[j] = onError) => i < j

\* C16 as stated (operation fault): when the real operation delegated by a
\* get, set, apply or construct interceptor throws, the configured onError
\* hook is called exactly once and the same error is then raised to the
\* caller, also when onError itself throws.
C16_OperationFaultAsStated ==
  [][\A f \in DOMAIN proxies :
       (OperationOn(f) /\ last'.op \in ContainedKinds /\ DelegationFault)
         => ErrorHookThenRaise(f)]_vars

\* C16 as amended: the same for an invocation whose gate does not answer
\* false; behind a closed gate the error is raised to the caller as well,
\* but no hook is called.
C16_OperationFault ==
  [][\A f \in DOMAIN proxies :
       (OperationOn(f) /\ last'.op \in ContainedKinds /\ DelegationFault)
         => IF GateClosed(proxies[f].config, ContextProperty(last'.op, last'.p))
              THEN /\ last'.threw
                   /\ last'.res = TargetError
                   /\ EventsOf(last'.ev, {"hook"}) = <<>>
              ELSE ErrorHookThenRaise(f)]_vars

\* an assignment whose setter threw called an error hook that threw too, and
\* the caller received the setter's error
C16_Witness ==
  /\ last.op = "set"
  /\ last.v = <<"boom">>
  /\ last.threw
  /\ last.res = TargetError
  /\ last.on \in DOMAIN proxies \ revoked
  /\ proxies[last.on].config.onError = "throw"
  /\ InSeq(<<"fault", "setter", last.p>>, last.ev)
  /\ InSeq(<<"hook", "onError", last.p>>, last.ev)
  /\ InSeq(<<"console", "error", "Hook execution error">>, last.ev)

\* the override, replacement and modifier hooks of a configuration
ValueHooks ==
  {"interceptGet", "interceptSet", "interceptCall", "interceptConstruct",
   "replaceFunction", "modifyArgs", "modifyResult", "modifyGetResult",
   "modifySetResult", "modifyHasResult", "modifyOwnKeysResult",
   "modifyDescriptorResult", "modifyPrototypeResult", "modifyDeleteResult",
   "modifyDefineResult"}

\* in this step's invocation on f, hook h was called and threw
HookThrew(f, h) ==
  /\ proxies[f].config[h] = "throw"
  /\ \E i \in 1..Len(last'.ev) :
       last'.ev[i][1] \in {"override", "modifier"} /\ last'.ev[i][2] = h

\* C17 (hook fault): a fault thrown by an override hook, a modifier or the
\* replacement hook is caught where the hook is called: the caller gets no
\* error, and the pipeline goes on to delegate the operation to the target.
C17_HookFaultSuppressed ==
  [][\A f \in DOMAIN proxies, h \in ValueHooks :
       (OperationOn(f) /\ HookThrew(f, h))
         => /\ ~last'.threw
            /\ \E i \in 1..Len(last'.ev) :
                 last'.ev[i][1] = "target" /\ last'.ev[i][2] = last'.op]_vars

\* ---- the reduced configuration shape (SpecMethods)
\* C18 (reduced shape): for a session whose configuration gives a kind in the
\* reduced shape {log, debugger, onModResult}, every invocation of that kind
\* reports to the caller the value the kind's onModResult returns.
C18_ReducedShapeHonoured ==
  [][\A f \in DOMAIN proxies :
       (/\ OperationOn(f)
        /\ last'.op \in DOMAIN proxies[f].config
        /\ "onModResult" \in DOMAIN proxies[f].config[last'.op])
         => /\ ~last'.threw
            /\ last'.res = ModifierValue(proxies[f].config[last'.op].onModResult,
                                         "undefined")]_vars

\* ---- revoke by name (SpecRegistry)
\* C19 (revoke by name): for an active session that was installed with name
\* n, unwatch(n) does what unwatch of its facade does: it returns the
\* session's target, revokes its facade and removes its by-target, by-facade
\* and by-name entries.
C19_UnwatchByName ==
  [][\A t \in DOMAIN watchedObjects :
       (/\ last'.op = "unwatch"
        /\ last'.on \in Names
        /\ watchedObjects[t].name = last'.on)
         => /\ last'.res = t
            /\ watchedObjects[t].proxy \in revoked'
            /\ ~MapHas(watchedObjects', t)
            /\ ~MapHas(proxyMetadata', watchedObjects[t].proxy)
            /\ ~MapHas(namedObjects', last'.on)]_vars

\* ---- the gate and the read before a set (Spec)
\* C20 (gated set): when the gate answers false for a set, the engine does
\* not read the property's current value before the set: no get is performed
\* on the target and no getter of the target runs.
C20_GatedSetDoesNotRead ==
  [][\A f \in DOMAIN proxies :
       (/\ OperationOn(f)
        /\ last'.op = "set"
        /\ GateClosed(proxies[f].config, last'.p))
         => /\ ~InSeq(<<"target", "get", last'.p>>, last'.ev)
            /\ ~InSeq(<<"accessor", "getter", last'.p>>, last'.ev)
            /\ heap'[proxies[f].target].touched = TargetOf(f).touched]_vars

\* ---- overrides, replacement and modifiers (SpecModifiers)
\* the target object of f once the interceptor of this step's operation has
\* read the property's current value (set and deleteProperty do)
AfterRead(f) ==
  IF last'.op \in {"set", "deleteProperty"}
    THEN OrdGet(TargetOf(f), last'.p).obj ELSE TargetOf(f)

\* the real operation of this step as the interceptor performs it: Reflect.set
\* with the facade as receiver, Reflect.defineProperty, Reflect.deleteProperty
RealOperation(f) ==
  IF last'.op = "set"
    THEN ReflectSet(FacadeEnv(f), AfterRead(f), last'.p, last'.v[1])
    ELSE LET d == Direct(last'.op, AfterRead(f), last'.p, last'.v)
         IN  Ret(d.res, d.threw, d.obj, d.fx)

\* in this step's set, defineProperty or deleteProperty on f the kind's result
\* modifier was consulted and answered something other than false
Permitted(f) ==
  /\ OperationOn(f)
  /\ last'.op \in {"set", "defineProperty", "deleteProperty"}
  /\ InSeq(<<"modifier", VetoModifierOf(last'.op), last'.p>>, last'.ev)
  /\ proxies[f].config[VetoModifierOf(last'.op)] # "throw"
  /\ VetoModifierResult(proxies[f].config[VetoModifierOf(last'.op)], last'.p) # "false"

\* C21 (no forced success): when the result modifier of a set, defineProperty
\* or deleteProperty answers anything but false, the real operation is
\* performed exactly once and its boolean is what the caller gets; a reported
\* success is a success of the operation on the target.
C21_RealOutcomeReported ==
  [][\A f \in DOMAIN proxies :
       Permitted(f)
         => /\ CountIn(last'.ev, <<"target", last'.op, last'.p>>) = 1
            /\ ~last'.threw
            /\ last'.res = RealOperation(f).res
            /\ heap'[proxies[f].target] = RealOperation(f).obj
            /\ last'.res = "true"
                 => Direct(last'.op, AfterRead(f), last'.p, last'.v).res = "true"]_vars

\* an assignment to a frozen property was reported as failed although the
\* modifier answered true
C21_Witness ==
  /\ last.op = "set"
  /\ last.p = "b"
  /\ last.res = "false"
  /\ last.on \in DOMAIN proxies \ revoked
  /\ proxies[last.on].config.modifySetResult = "echo"
  /\ InSeq(<<"modifier", "modifySetResult", "b">>, last.ev)
  /\ InSeq(<<"target", "set", "b">>, last.ev)
  /\ TargetOf(last.on).props["b"] = DataDesc("v2", FALSE, FALSE)

\* this step is a set on f whose interceptSet hook was called and returned
InterceptSetAnswered(f) ==
  /\ OperationOn(f)
  /\ last'.op = "set"
  /\ proxies[f].config.interceptSet # "throw"
  /\ InSeq(<<"override", "interceptSet", last'.p>>, last'.ev)

\* C22 (mutate override): when interceptSet returns a boolean, no set reaches
\* the target and that boolean is the outcome; when it returns anything else,
\* the invocation goes on to the veto check and delegation, as it would have
\* without interceptSet.
C22_BooleanShortCircuits ==
  [][\A f \in DOMAIN proxies :
       InterceptSetAnswered(f)
         => LET iv == OverrideValue(proxies[f].config.interceptSet, last'.p)
                E == FacadeEnv(f)
                r == SetInterceptor([E EXCEPT !.cfg.interceptSet = "null"],
                                    TargetOf(f), last'.p, last'.v[1])
            IN  IF iv \in {"true", "false"}
                  THEN /\ ~InSeq(<<"target", "set", last'.p>>, last'.ev)
                       /\ ~InSeq(<<"modifier", "modifySetResult", last'.p>>, last'.ev)
                       /\ heap'[proxies[f].target] = AfterRead(f)
                       /\ ~last'.threw
                       /\ last'.res = iv
                  ELSE /\ Truthy(proxies[f].config.modifySetResult)
                            => InSeq(<<"modifier", "modifySetResult", last'.p>>, last'.ev)
                       /\ Vetoed(f) \/ InSeq(<<"target", "set", last'.p>>, last'.ev)
                       /\ SameResult(r)
                       /\ heap'[proxies[f].target] = r.obj]_vars

\* a writable property kept its value although the assignment through the
\* facade reported success: interceptSet answered true
C22_Witness ==
  /\ last.op = "set"
  /\ last.p = "a"
  /\ last.v = <<"v2">>
  /\ last.res = "true"
  /\ last.on \in DOMAIN proxies \ revoked
  /\ proxies[last.on].config.interceptSet = "retTrue"
  /\ TargetOf(last.on).props["a"] = DataDesc("v1", TRUE, TRUE)

\* the full-override hook of an operation kind
OverrideOf(op) ==
  CASE op = "get" -> "interceptGet"
    [] op = "apply" -> "interceptCall"
    [] op = "construct" -> "interceptConstruct"

\* this step is a get, apply or construct on f whose full-override hook was
\* called and answered a defined value
Overridden(f) ==
  /\ OperationOn(f)
  /\ last'.op \in {"get", "apply", "construct"}
  /\ proxies[f].config[OverrideOf(last'.op)] # "throw"
  /\ \E i \in 1..Len(last'.ev) :
       /\ last'.ev[i][1] = "override"
       /\ last'.ev[i][2] = OverrideOf(last'.op)
       /\ OverrideValue(proxies[f].config[OverrideOf(last'.op)], last'.ev[i][3])
            # "undefined"

\* C23 (override runs the post-delegation stages): when a full-override hook
\* short-circuits a get, apply or construct, a configured onAfter hook runs
\* once and every registered observer is called once with phase 'after'.
C23_OverrideRunsAfterStages ==
  [][\A f \in DOMAIN proxies :
       Overridden(f)
         => /\ IsFunction(proxies[f].config.onAfter)
                 => \E i \in 1..Len(last'.ev) :
                      last'.ev[i][1] = "hook" /\ last'.ev[i][2] = "onAfter"
            /\ \A o \in ChainObservers :
                 Broadcasts(last'.ev, "after", o) = CountIn(globalInterceptors, o)]_vars

\* this step is a call of f in which replaceFunction was called and returned
ReplaceFunctionAnswered(f) ==
  /\ OperationOn(f)
  /\ last'.op = "apply"
  /\ proxies[f].config.replaceFunction # "throw"
  /\ InSeq(<<"override", "replaceFunction", FnName>>, last'.ev)

\* the function of the target ran in this step's invocation
TargetInvoked ==
  \E i \in 1..Len(last'.ev) :
    \/ last'.ev[i][1] = "target" /\ last'.ev[i][2] = "apply"
    \/ last'.ev[i][1] = "function" /\ last'.ev[i][2] = "call"

\* how many times a replacement function ran in this step's invocation
ReplacementCalls ==
  Cardinality({i \in 1..Len(last'.ev) :
                 last'.ev[i][1] = "function" /\ last'.ev[i][2] = "replacement"})

\* C24 (function replacement): when replaceFunction returns a callable it is
\* invoked exactly once with the original arguments, the target is not
\* invoked, and the callable's return value is the result of the call; when
\* replaceFunction returns a non-callable the call is delegated to the target.
C24_ReplacementInsteadOfTarget ==
  [][\A f \in DOMAIN proxies :
       ReplaceFunctionAnswered(f)
         => IF OverrideValue(proxies[f].config.replaceFunction, FnName) = "fn"
              THEN /\ ReplacementCalls = 1
                   /\ InSeq(<<"function", "replacement", FnReturn(last'.v)>>, last'.ev)
                   /\ ~TargetInvoked
                   /\ ~last'.threw
                   /\ last'.res = ReplacementReturn
                   /\ heap'[proxies[f].target] = TargetOf(f)
              ELSE /\ ReplacementCalls = 0
                   /\ TargetInvoked]_vars

\* a call with an argument returned the replacement's value, although the
\* session also configures an argument modifier
C24_Witness ==
  /\ last.op = "apply"
  /\ last.v = <<"v1">>
  /\ last.res = ReplacementReturn
  /\ ~last.threw
  /\ last.on \in DOMAIN proxies \ revoked
  /\ proxies[last.on].config.replaceFunction = "fn"
  /\ proxies[last.on].config.modifyArgs = "swap"
  /\ InSeq(<<"function", "replacement", "v1">>, last.ev)

\* this step is a call or construction through f in which modifyArgs was
\* called and returned, and the invocation was delegated to the target
ArgsModified(f) ==
  /\ OperationOn(f)
  /\ last'.op \in {"apply", "construct"}
  /\ proxies[f].config.modifyArgs # "throw"
  /\ InSeq(<<"modifier", "modifyArgs", FnName>>, last'.ev)
  /\ \E i \in 1..Len(last'.ev) :
       last'.ev[i][1] = "target" /\ last'.ev[i][2] = last'.op

\* C25 (argument rewrite): the target is called with the list modifyArgs
\* returned when that list is usable, and with the caller's arguments when
\* modifyArgs returned undefined or an empty list.
C25_UnusableArgsKeepOriginal ==
  [][\A f \in DOMAIN proxies :
       ArgsModified(f)
         => LET expected == IF proxies[f].config.modifyArgs = "swap"
                              THEN <<"v2">> ELSE last'.v
            IN  InSeq(<<"target", last'.op, FnReturn(expected)>>, last'.ev)]_vars

\* the result modifier of an operation kind that reads
ResultModifierOf(op) ==
  CASE op = "has" -> "modifyHasResult"
    [] op = "get" -> "modifyGetResult"
    [] op = "ownKeys" -> "modifyOwnKeysResult"
    [] op = "getOwnPropertyDescriptor" -> "modifyDescriptorResult"
    [] op = "getPrototypeOf" -> "modifyPrototypeResult"
    [] op = "apply" -> "modifyResult"

\* this step is a read operation on f whose result modifier was called and
\* returned, and the operation returned to the caller
ModifierAnswered(f) ==
  /\ OperationOn(f)
  /\ last'.op \in {"has", "get", "ownKeys", "getOwnPropertyDescriptor",
                   "getPrototypeOf", "apply"}
  /\ proxies[f].config[ResultModifierOf(last'.op)] # "throw"
  /\ \E i \in 1..Len(last'.ev) :
       last'.ev[i][1] = "modifier" /\ last'.ev[i][2] = ResultModifierOf(last'.op)
  /\ ~last'.threw

\* C26 (result rewrite): when the result modifier of a has, get, ownKeys,
\* getOwnPropertyDescriptor, getPrototypeOf or apply is configured, the caller
\* gets exactly the value the modifier returned, falsy values included.
C26_ModifierValueReported ==
  [][\A f \in DOMAIN proxies :
       ModifierAnswered(f)
         => LET d == Direct(last'.op, TargetOf(f), last'.p, last'.v)
                m == proxies[f].config[ResultModifierOf(last'.op)]
            IN  CASE last'.op = "ownKeys" -> last'.keys = KeysModifier(m, d.res)
                  [] last'.op = "getOwnPropertyDescriptor" ->
                       last'.desc = DescriptorModifier(m, d.res)
                  [] OTHER -> last'.res = ModifierValue(m, d.res)]_vars

\* the positions in this step's events at which the named hook ran
HookRuns(name) ==
  {i \in 1..Len(last'.ev) : last'.ev[i][1] = "hook" /\ last'.ev[i][2] = name}

\* the positions at which this step's operation reached the target
DelegationAt ==
  {i \in 1..Len(last'.ev) : last'.ev[i][1] = "target" /\ last'.ev[i][2] = last'.op}

\* this step is an operation on f, of a session with onBefore and onAfter
\* and no gate, that was delegated to the target and completed
DelegatedUngated(f) ==
  /\ OperationOn(f)
  /\ ~GateConfigured(proxies[f].config)
  /\ IsFunction(proxies[f].config.onBefore)
  /\ IsFunction(proxies[f].config.onAfter)
  /\ DelegationAt # {}
  /\ ~last'.threw

\* C27 (lifecycle hooks on every kind): for each of the 13 operation kinds,
\* an ungated invocation whose delegation completes runs onBefore exactly
\* once, before the delegation, and onAfter exactly once, after it.
C27_BeforeAndAfterOnEveryKind ==
  [][\A f \in DOMAIN proxies :
       DelegatedUngated(f)
         => /\ Cardinality(HookRuns("onBefore")) = 1
            /\ Cardinality(HookRuns("onAfter")) = 1
            /\ \A b \in HookRuns("onBefore"), t \in DelegationAt : b < t
            /\ \A a \in HookRuns("onAfter"), t \in DelegationAt : t < a]_vars

\* the stage of the apply pipeline an event belongs to (0: none of them)
StageOf(e) ==
  CASE e[1] = "gate" -> 1
    [] e[1] = "hook" /\ e[2] = "onBefore" -> 2
    [] e[1] = "hook" /\ e[2] = "onCall" -> 3
    [] e[1] = "observer" /\ e[2] = "before" -> 4
    [] e[1] = "debugger" -> 5
    [] e[1] = "override" /\ e[2] = "interceptCall" -> 6
    [] e[1] = "override" /\ e[2] = "replaceFunction" -> 7
    [] e[1] = "modifier" /\ e[2] = "modifyArgs" -> 8
    [] e[1] = "target" /\ e[2] = "apply" -> 9
    [] e[1] = "modifier" /\ e[2] = "modifyResult" -> 10
    [] e[1] = "hook" /\ e[2] = "onAfter" -> 11
    [] e[1] = "observer" /\ e[2] = "after" -> 12
    [] e[1] = "log" -> 13
    [] OTHER -> 0

\* the stages that are a broadcast: one event for each registered observer
BroadcastStages == {4, 12}

\* the positions in this step's events that belong to stage k
StageRuns(k) == {i \in 1..Len(last'.ev) : StageOf(last'.ev[i]) = k}

\* this step is a call of f whose session configures every stage, with a gate
\* that lets the call through and an override and a replacement that decline
EveryStageConfigured(f) ==
  LET cfg == proxies[f].config IN
  /\ OperationOn(f)
  /\ last'.op = "apply"
  /\ GateConfigured(cfg) /\ ~GateClosed(cfg, FnName)
  /\ \A h \in {"onBefore", "onCall", "onAfter"} : IsFunction(cfg[h]) /\ cfg[h] # "throw"
  /\ Truthy(cfg.debug)
  /\ Truthy(cfg.interceptCall) /\ OverrideValue(cfg.interceptCall, FnName) = "undefined"
  /\ Truthy(cfg.replaceFunction) /\ OverrideValue(cfg.replaceFunction, FnName) # "fn"
  /\ \A h \in {"interceptCall", "replaceFunction", "modifyArgs", "modifyResult"} :
       Truthy(cfg[h]) /\ cfg[h] # "throw"

\* C28 (stage ordering of a call): with every hook configured and none
\* short-circuiting, the stages run in the order gate, onBefore, onCall,
\* observers 'before', debug gate, interceptCall, replaceFunction, modifyArgs,
\* delegation, modifyResult, onAfter, observers 'after', log: no stage runs
\* before an earlier one, none runs twice, and when the target returns all
\* of them have run.
C28_ApplyStageOrder ==
  [][\A f \in DOMAIN proxies :
       EveryStageConfigured(f)
         => /\ \A i, j \in 1..Len(last'.ev) :
                 (i < j /\ StageOf(last'.ev[i]) # 0 /\ StageOf(last'.ev[j]) # 0)
                   => StageOf(last'.ev[i]) <= StageOf(last'.ev[j])
            /\ \A k \in (1..13) \ BroadcastStages : Cardinality(StageRuns(k)) <= 1
            /\ \A k \in BroadcastStages :
                 Cardinality(StageRuns(k)) <= Len(globalInterceptors)
            /\ ~last'.threw
                 => /\ \A k \in (1..13) \ BroadcastStages : Cardinality(StageRuns(k)) = 1
                    /\ \A k \in BroadcastStages :
                         Cardinality(StageRuns(k)) = Len(globalInterceptors)]_vars

\* a call went through all thirteen stages, with one observer registered
C28_Witness ==
  /\ last.op = "apply"
  /\ last.res = "X"
  /\ last.ev = << <<"gate", "shouldIntercept", "fn">>,
                  <<"hook", "onBefore", "fn">>,
                  <<"hook", "onCall", "fn">>,
                  <<"observer", "before", "obsA">>,
                  <<"debugger", "", "fn">>,
                  <<"override", "interceptCall", "fn">>,
                  <<"override", "replaceFunction", "fn">>,
                  <<"modifier", "modifyArgs", "fn">>,
                  <<"target", "apply", "v2">>,
                  <<"function", "call", "v2">>,
                  <<"modifier", "modifyResult", "fn">>,
                  <<"hook", "onAfter", "fn">>,
                  <<"observer", "after", "obsA">>,
                  <<"log", "debug", "Function called">> >>

\* ---- faults of the before-, kind-specific and after-hooks (SpecFaults)
\* the hooks that are called through _executeHook before and after delegation
LifecycleHooks ==
  {"onBefore", "onAfter", "onGet", "onSet", "onCall", "onConstruct",
   "onDefine", "onDelete", "onHas"}

\* the configuration with every throwing lifecycle hook replaced by one that
\* returns
CalmHooks(cfg) ==
  [k \in DOMAIN cfg |->
     IF k \in LifecycleHooks /\ cfg[k] = "throw" THEN "rec" ELSE cfg[k]]

\* in this step's invocation on f a lifecycle hook was called and threw
LifecycleHookThrew(f) ==
  /\ OperationOn(f)
  /\ \E i \in 1..Len(last'.ev) :
       /\ last'.ev[i][1] = "hook"
       /\ last'.ev[i][2] \in LifecycleHooks
       /\ proxies[f].config[last'.ev[i][2]] = "throw"

\* the events without the console lines
NoConsole(ev) == SelectSeq(ev, LAMBDA e : e[1] # "console")

\* C29 (lifecycle hook fault): a fault thrown by onBefore, by a kind-specific
\* hook or by onAfter is caught and logged where the hook is called and never
\* reaches the caller: the same stages run, the operation is delegated, and
\* the result and the target are those of the same invocation with hooks
\* that return.
C29_LifecycleHookFaultContained ==
  [][\A f \in DOMAIN proxies :
       LifecycleHookThrew(f)
         => LET E == FacadeEnv(f)
                r == Intercept(last'.op, [E EXCEPT !.cfg = CalmHooks(E.cfg)],
                               TargetOf(f), last'.p, last'.v)
            IN  /\ last'.res # HookError
                /\ SameResult(r)
                /\ heap'[proxies[f].target] = r.obj
                /\ NoConsole(last'.ev) = NoConsole(r.ev)
                /\ \A i \in 1..Len(last'.ev) :
                     (last'.ev[i][1] = "hook" /\ last'.ev[i][2] \in LifecycleHooks
                        /\ proxies[f].config[last'.ev[i][2]] = "throw")
                       => /\ i < Len(last'.ev)
                          /\ last'.ev[i + 1] =
                               <<"console", "error", "Hook execution error">>]_vars

\* an assignment succeeded and reached the target although onBefore, onSet
\* and onAfter threw
C29_Witness ==
  /\ last.op = "set"
  /\ last.v = <<"v1">>
  /\ last.res = "true"
  /\ ~last.threw
  /\ last.on \in DOMAIN proxies \ revoked
  /\ proxies[last.on].config.onBefore = "throw"
  /\ InSeq(<<"hook", "onBefore", last.p>>, last.ev)
  /\ InSeq(<<"hook", "onSet", last.p>>, last.ev)
  /\ InSeq(<<"hook", "onAfter", last.p>>, last.ev)
  /\ InSeq(<<"target", "set", last.p>>, last.ev)
  /\ CountIn(last.ev, <<"console", "error", "Hook execution error">>) >= 3

\* ---- the context objects handed to hooks and observers (SpecModifiers)
\* the data an interceptor passes to _createContext; old is the value the set
\* and deleteProperty interceptors read from the target beforehand
ContextData(op, E, p, v, old) ==
  CASE op = "apply" ->
         [target |-> E.t, thisArg |-> "thisArg", arguments |-> v, property |-> FnName]
    [] op = "construct" ->
         [target |-> E.t, arguments |-> v, newTarget |-> "newTarget", property |-> FnName]
    [] op = "get" -> [target |-> E.t, property |-> p, receiver |-> "receiver"]
    [] op = "set" ->
         [target |-> E.t, property |-> p, oldValue |-> old, newValue |-> v[1],
          receiver |-> "receiver"]
    [] op = "defineProperty" -> [target |-> E.t, property |-> p, descriptor |-> v]
    [] op = "deleteProperty" -> [target |-> E.t, property |-> p, deletedValue |-> old]
    [] op \in {"has", "getOwnPropertyDescriptor"} -> [target |-> E.t, property |-> p]
    [] op \in {"ownKeys", "getPrototypeOf"} -> [target |-> E.t]

\* _createContext(type, data): {type, timestamp, ...data}, and the stack when
\* the session of data.target enables stack traces
CreateContext(type, data, E) ==
  LET context == Merge([type |-> type, timestamp |-> "now"], data)
  IN  IF MapHas(E.wo, E.t) /\ Truthy(E.wo[E.t].config.enableStackTrace)
        THEN Merge(context, [stack |-> "stack"]) ELSE context

AfterContexts_Fresh(op, context, cfg, result, finalArgs) == {[result |-> result]}

\* the contexts an interceptor may pass to onAfter and to the 'after'
\* broadcast: {...context, <result field>}, for apply and construct also on
\* the override and replacement paths
AfterContexts(op, context, cfg, result, finalArgs) ==
  LET duration == IF Truthy(cfg.enableTiming) THEN "ms" ELSE "null" IN
  CASE op = "apply" ->
         {Merge(context, [result |-> result]),
          Merge(context, [result |-> result, replaced |-> "true"]),
          Merge(context, [result |-> result, arguments |-> finalArgs,
                          duration |-> duration])}
    [] op = "construct" ->
         {Merge(context, [instance |-> result]),
          Merge(context, [instance |-> result, arguments |-> finalArgs,
                          duration |-> duration])}
    [] op = "get" -> {Merge(context, [value |-> result])}
    [] op \in {"set", "defineProperty", "deleteProperty"} ->
         {Merge(context, [success |-> result])}
    [] op = "has" -> {Merge(context, [exists |-> result])}
    [] op = "ownKeys" -> {Merge(context, [keys |-> result])}
    [] op = "getOwnPropertyDescriptor" -> {Merge(context, [descriptor |-> result])}
    [] op = "getPrototypeOf" -> {Merge(context, [prototype |-> result])}

\* the operation kinds whose interceptor builds a context
ContextKinds ==
  {"get", "set", "has", "deleteProperty", "defineProperty", "ownKeys",
   "getOwnPropertyDescriptor", "getPrototypeOf", "apply", "construct"}

\* this step is an operation on f in which the after-hook or the 'after'
\* broadcast was reached
AfterStageReached(f) ==
  /\ OperationOn(f)
  /\ last'.op \in ContextKinds
  /\ IsFunction(proxies[f].config.onAfter) \/ globalInterceptors # <<>>
  /\ HookRuns("onAfter") # {} \/ Broadcast("after")

\* the context this step's interceptor built for f before its hooks
BeforeContextOf(f) ==
  CreateContext(last'.op,
                ContextData(last'.op, FacadeEnv(f), last'.p, last'.v,
                            OrdGet(TargetOf(f), last'.p).res),
                FacadeEnv(f))

\* the contexts this step's interceptor may have passed after delegation
AfterContextsOf(f) ==
  LET cfg == proxies[f].config IN
  AfterContexts(last'.op, BeforeContextOf(f), cfg,
                IF last'.op = "ownKeys" THEN last'.keys
                ELSE IF last'.op = "getOwnPropertyDescriptor" THEN last'.desc
                ELSE last'.res,
                IF last'.op \in {"apply", "construct"} /\ Truthy(cfg.modifyArgs)
                  THEN ModifyArgs(cfg.modifyArgs, last'.v) ELSE last'.v)

\* C30 (additive context): within one invocation every field of the context
\* passed to the before-hooks (type, timestamp, target, property, arguments,
\* oldValue, newValue, stack, ...) is also a field of the context passed to
\* onAfter and to the 'after' observers, which has at least one field more.
C30_ContextAdditive ==
  [][\A f \in DOMAIN proxies :
       AfterStageReached(f)
         => \A after \in AfterContextsOf(f) :
              /\ DOMAIN BeforeContextOf(f) \subseteq DOMAIN after
              /\ DOMAIN after # DOMAIN BeforeContextOf(f)
              /\ {"type", "timestamp", "target"} \subseteq DOMAIN after]_vars

\* a call in a session with stack traces and timing reached the after-hook:
\* its before-context has six fields, and an after-context has result and
\* duration besides
C30_Witness ==
  /\ last.op = "apply"
  /\ last.v = <<"v1">>
  /\ ~last.threw
  /\ last.on \in DOMAIN proxies \ revoked
  /\ proxies[last.on].config.enableStackTrace = "true"
  /\ InSeq(<<"hook", "onAfter", FnName>>, last.ev)
  /\ InSeq(<<"observer", "after", "obsA">>, last.ev)
  /\ LET E == FacadeEnv(last.on)
         context == CreateContext("apply", ContextData("apply", E, "-", last.v, "undefined"), E)
     IN  /\ DOMAIN context = {"type", "timestamp", "target", "thisArg", "arguments",
                              "property", "stack"}
         /\ \E after \in AfterContexts("apply", context, E.cfg, last.res, <<"v2">>) :
              DOMAIN after = DOMAIN context \cup {"result", "duration"}

\* ---- logging
\* the order of the log levels: debug < info < warn < error
LevelRank(level) ==
  CASE level = "debug" -> 0
    [] level = "info" -> 1
    [] level = "warn" -> 2
    [] level = "error" -> 3

\* C31 (log threshold): with log enabled, a log line is emitted only at a
\* level at or above the configured logLevel in the order debug < info <
\* warn < error, so the per-operation lines (level debug) are emitted when
\* logLevel is debug and not when it is info, the default.
C31_LogThreshold ==
  [][\A f \in DOMAIN proxies :
       (OperationOn(f) /\ Truthy(proxies[f].config.log))
         => /\ \A i \in 1..Len(last'.ev) :
                 last'.ev[i][1] = "log"
                   => LevelRank(last'.ev[i][2]) >= LevelRank(proxies[f].config.logLevel)
            /\ (proxies[f].config.logLevel = "debug" /\ ~last'.threw
                  /\ ~GateClosed(proxies[f].config, ContextProperty(last'.op, last'.p)))
                 => \E i \in 1..Len(last'.ev) : last'.ev[i][1] = "log"]_vars

\* C32 (log predicate): when the log toggle of a session is a predicate, an
\* invocation emits a log line only if the predicate answers true for its
\* context.
C32_LogPredicateDecides ==
  [][\A f \in DOMAIN proxies :
       (OperationOn(f) /\ IsFunction(proxies[f].config.log))
         => ((\E i \in 1..Len(last'.ev) : last'.ev[i][1] = "log")
               => PredicateHolds(proxies[f].config.log,
                                 ContextProperty(last'.op, last'.p)))]_vars

\* ---- watching a target again (SpecRewatch)
\* this step installed a new session
Installed ==
  /\ last'.op = "watch"
  /\ ~last'.threw
  /\ watchedObjects' # watchedObjects

\* some revoked facade and f stand for the same target under different
\* configurations
Rewatched(f) ==
  \E g \in revoked :
    /\ proxies[g].target = proxies[f].target
    /\ proxies[g].config # proxies[f].config

\* C33 (no reactivation): a session that was revoked stays revoked.  A later
\* watch of the same target creates a facade that is none of the facades
\* created before, with the configuration of that call; operations through
\* the new facade are those of the new configuration, and operations through
\* the revoked facade keep raising a TypeError and leave the target alone.
C33_NeverReactivated ==
  [][/\ revoked \subseteq revoked'
     /\ Installed
          => /\ last'.res \notin DOMAIN proxies
             /\ last'.res \notin revoked'
             /\ proxies'[last'.res] = [target |-> last'.on,
                                       config |-> NormalizeConfig(last'.v)]
             /\ watchedObjects'[last'.on].proxy = last'.res
             /\ watchedObjects'[last'.on].config = NormalizeConfig(last'.v)
             /\ \A g \in DOMAIN proxies : proxies'[g] = proxies[g]
     /\ \A f \in DOMAIN proxies :
          /\ (OperationOn(f) /\ Rewatched(f))
               => LET r == Intercept(last'.op,
                                     Env(watchedObjects[proxies[f].target].config,
                                         proxies[f].target, watchedObjects,
                                         globalInterceptors),
                                     TargetOf(f), last'.p, last'.v)
                  IN  /\ watchedObjects[proxies[f].target].proxy = f
                      /\ SameResult(r)
                      /\ last'.ev = r.ev
                      /\ heap'[proxies[f].target] = r.obj
          /\ (f \in revoked /\ last'.op \in OpKinds /\ last'.on = f)
               => /\ last'.threw
                  /\ last'.res = TypeError
                  /\ last'.ev = <<>>
                  /\ heap' = heap]_vars

\* an assignment through the facade of a second session on a target took
\* effect, although the session revoked before it vetoed every assignment
C33_Witness ==
  /\ last.op = "set"
  /\ last.res = "true"
  /\ last.on \in DOMAIN proxies \ revoked
  /\ \E g \in revoked :
       /\ g # last.on
       /\ proxies[g].target = proxies[last.on].target
       /\ proxies[g].config.modifySetResult = "veto"
  /\ proxies[last.on].config.modifySetResult = "null"
  /\ TargetOf(last.on).props[last.p].v = last.v[1]

\* ---- names (SpecRegistry)
\* C34 (name resolution): every active session that was installed with a
\* name can be revoked through unwatch(name): the name resolves, and it
\* resolves to an active session installed with that name.
C34_NamedSessionsResolvable ==
  \A t \in DOMAIN watchedObjects :
    Truthy(watchedObjects[t].name)
      => LET look == UnwatchLookup(namedObjects, proxyMetadata, watchedObjects[t].name)
         IN  /\ look.found
             /\ MapHas(watchedObjects, look.target)
             /\ watchedObjects[look.target].name = watchedObjects[t].name

\* C35 (registry consistency): target T has a by-target entry with facade F
\* exactly when F has a by-facade entry with target T, and every by-name
\* entry refers to a target with an active session whose facade is the one
\* recorded under the name.
C35_RegistryConsistent ==
  /\ \A t \in DOMAIN watchedObjects :
       /\ MapHas(proxyMetadata, watchedObjects[t].proxy)
       /\ proxyMetadata[watchedObjects[t].proxy].target = t
       /\ watchedObjects[t].target = t
  /\ \A f \in DOMAIN proxyMetadata :
       /\ MapHas(watchedObjects, proxyMetadata[f].target)
       /\ watchedObjects[proxyMetadata[f].target].proxy = f
  /\ \A n \in DOMAIN namedObjects :
       /\ MapHas(watchedObjects, namedObjects[n].target)
       /\ watchedObjects[namedObjects[n].target].proxy = namedObjects[n].proxy
       /\ namedObjects[n].proxy \notin revoked

\* two sessions are active, one of them under a name, after another session
\* was revoked
C35_Witness ==
  /\ Cardinality(DOMAIN watchedObjects) = 2
  /\ Cardinality(DOMAIN proxyMetadata) = 2
  /\ DOMAIN namedObjects = {"n1"}
  /\ revoked # {}
  /\ last.op = "unwatch"

\* ---- calls back into the manager during an invocation (SpecReentrant)
\* C36 (observer list mutated during a broadcast): when an observer removes
\* itself from the list while a broadcast is running, every other observer
\* registered at the start of the broadcast is still called exactly once per
\* registration in it.
C36_RemovalDropsNoCall ==
  [][\A f \in DOMAIN proxies :
       (OperationOn(f) /\ Broadcasts(last'.ev, "before", "obsLeave") > 0)
         => \A o \in ReentrantObservers \ {"obsLeave"} :
              Broadcasts(last'.ev, "before", o) = CountIn(globalInterceptors, o)]_vars

\* C37 (reentrant revoke): when the onBefore hook calls unwatch on the
\* facade of a get, set, apply or construct in flight, that invocation still
\* completes against the target as the direct operation would, without an
\* error of its own, and the facade is revoked afterwards.
C37_InFlightCompletes ==
  [][\A f \in DOMAIN proxies :
       (OperationOn(f) /\ last'.op \in ContainedKinds /\ Reentered(f, last'.ev))
         => LET d == Direct(last'.op, TargetOf(f), last'.p, last'.v)
            IN  /\ SameResult(d)
                /\ heap'[proxies[f].target] = d.obj
                /\ f \in revoked']_vars

\* ---- what follows a fault of the delegation (SpecFaults)
\* in this step every registered observer was called once with 'before',
\* none with 'after', and onAfter did not run
BeforeWithoutAfter ==
  /\ \A o \in Observers :
       /\ Broadcasts(last'.ev, "before", o) = CountIn(globalInterceptors, o)
       /\ Broadcasts(last'.ev, "after", o) = 0
  /\ HookRuns("onAfter") = {}

C39_FaultLogged ==
  [][\A f \in DOMAIN proxies :
       (OperationOn(f) /\ last'.op \in ContainedKinds /\ DelegationFault
          /\ ~GateClosed(proxies[f].config, ContextProperty(last'.op, last'.p))
          /\ Truthy(proxies[f].config.log))
         => \E i, j \in 1..Len(last'.ev) :
              /\ last'.ev[i][1] = "fault"
              /\ i < j
              /\ last'.ev[j][1] = "log" /\ last'.ev[j][2] = "error"]_vars

====
